---- MODULE Spec2Model ----
(***************************************************************************)
(* The four constraint-satisfaction solvers of "Chapter 5": map colouring, *)
(* N-Queens, Sudoku and cryptarithmetic.  Each solver is a state machine   *)
(* over its domain store and the stack of its recursive search calls; the  *)
(* while loop of ac3 is an operator applied inside the step that calls it. *)
(***************************************************************************)
EXTENDS Integers, Sequences, FiniteSets, TLC

VARIABLES
    map_graph,   \* MapColoring.map_graph: country -> sequence of neighbours
    colors,      \* MapColoring.colors: the colour list
    n,           \* NQueensSolver.n
    variables,   \* CryptarithmeticSolver.variables: the list of letters
    assignment,  \* CryptarithmeticSolver: the dict backtrack fills, letter -> digit
    board,       \* SudokuSolver.board, cell 9 * row + col -> 0..9
    heap,        \* SudokuSolver: the set objects self.domains refers to
    domains,     \* self.domains of the running solver
    stack,       \* the frames of the active backtrack calls, innermost last
    ctl,         \* where control is: "main", "call", "loop", "ret", "done", "fault",
                 \* and "end" once the brute-force script has run as well
    ret,         \* the value the call that has just returned gave back
    ret_entry,   \* history: the store at the entry of that call
    restored,    \* history: the store when the backup just restored was taken
    result,      \* what the top-level call returned
    report,      \* what the script prints
    solution     \* cryptarithmetic/main.py: what solve_cryptoarithmetic() returned

vars == <<map_graph, colors, n, variables, assignment, board, heap, domains, stack,
          ctl, ret, ret_entry, restored, result, report, solution>>

\* the problem definitions and the brute-force script's variable, which no
\* solver writes; and what the map and queens solvers never touch
params == <<map_graph, colors, n, variables, solution>>
idle == <<params, assignment, board, heap>>

(***************************************************************************)
(* Bounds of the checked instances.                                        *)
(***************************************************************************)
MaxCountries == 4
MaxColors == 3
MaxN == 6
MaxEdits == 2
\* the while loop of ac3 is followed for at most 2^WhileDepth turns
WhileDepth == 16
\* the domain stores ac3 is called on directly: up to MaxStoreVars countries
\* or letters, MaxStoreN columns, values below MaxStoreVals, and MaxStoreCells
\* cells of a Sudoku board
MaxStoreVars == 3
MaxStoreVals == 3
MaxStoreN == 4
MaxStoreCells == 1

None == "None"

\* the history variable restored when no restore has just been made
NoStore == <<>>

(***************************************************************************)
(* Python helpers.                                                         *)
(***************************************************************************)
\* min(S) of a non-empty set of integers
SetMin(S) == CHOOSE x \in S : \A y \in S : x <= y

\* sorted(S): the ascending list of a set of integers
RECURSIVE sorted(_)
sorted(S) == IF S = {} THEN <<>> ELSE <<SetMin(S)>> \o sorted(S \ {SetMin(S)})

\* the elements of a list
Elems(s) == {s[i] : i \in 1..Len(s)}

(***************************************************************************)
(* MapColoring (Chapter 5/map-coloring/main.py).  Countries are 1..k in    *)
(* the insertion order of the map_graph dict; colours are integers, whose  *)
(* order stands for the order sorted() gives the colour names.             *)
(***************************************************************************)
\* __init__: self.domains = {country: set(colors) for country in map_graph}
Map_init_domains(graph, cols) == [c \in DOMAIN graph |-> Elems(cols)]

\* Map_revise with all() in the place of any()
Map_revise_all(dom, xi, xj) ==
    [dom EXCEPT ![xi] = {color \in dom[xi] :
                            \A xj_color \in dom[xj] : color # xj_color}]

\* Map_revise removing from xj's domain what it should remove from xi's
Map_revise_other(dom, xi, xj) ==
    [dom EXCEPT ![xj] = {color \in dom[xj] :
                            \E xi_color \in dom[xi] : color # xi_color}]

\* revise(xi, xj): the colours of xi that keep a different colour in xj
Map_revise(dom, xi, xj) ==
    [dom EXCEPT ![xi] = {color \in dom[xi] :
                            \E xj_color \in dom[xj] : color # xj_color}]

\* the initial worklist of ac3
Map_arcs_from(graph, xi) == [k \in 1..Len(graph[xi]) |-> <<xi, graph[xi][k]>>]

RECURSIVE Map_queue(_, _)
Map_queue(graph, xi) ==
    IF xi \notin DOMAIN graph THEN <<>>
    ELSE Map_arcs_from(graph, xi) \o Map_queue(graph, xi + 1)

\* Map_requeue that appends nothing
Map_requeue_none(graph, xi, xj) == <<>>

\* the arcs (xk, xi) appended after xi's domain shrank
Map_requeue(graph, xi, xj) ==
    LET keep == SelectSeq(graph[xi], LAMBDA xk : xk # xj)
    IN  [k \in 1..Len(keep) |-> <<keep[k], xi>>]

\* Map_ac3_step without the test "if not self.domains[xi]: return False"
Map_ac3_step_no_wipeout(graph, s) ==
    LET xi == Head(s.queue)[1]
        xj == Head(s.queue)[2]
        rest == Tail(s.queue)
        dom == Map_revise(s.domains, xi, xj)
    IN  IF dom = s.domains THEN [s EXCEPT !.queue = rest]
        ELSE [domains |-> dom, queue |-> rest \o Map_requeue(graph, xi, xj),
              ok |-> TRUE]

\* one turn of the while loop of ac3 on [domains, queue, ok]
Map_ac3_step(graph, s) ==
    LET xi == Head(s.queue)[1]
        xj == Head(s.queue)[2]
        rest == Tail(s.queue)
        dom == Map_revise(s.domains, xi, xj)
    IN  IF dom = s.domains THEN [s EXCEPT !.queue = rest]
        ELSE IF dom[xi] = {} THEN [domains |-> dom, queue |-> rest, ok |-> FALSE]
        ELSE [domains |-> dom, queue |-> rest \o Map_requeue(graph, xi, xj),
              ok |-> TRUE]

\* while queue: ... ; up to 2^k turns, stopping at return False
RECURSIVE Map_ac3_while(_, _, _)
Map_ac3_while(graph, s, k) ==
    IF s.queue = <<>> \/ ~s.ok THEN s
    ELSE IF k = 0 THEN Map_ac3_step(graph, s)
    ELSE Map_ac3_while(graph, Map_ac3_while(graph, s, k - 1), k - 1)

\* ac3(): [domains |-> the store it leaves, ok |-> its return value]
Map_ac3(graph, dom) ==
    Map_ac3_while(graph,
        [domains |-> dom, queue |-> Map_queue(graph, 1), ok |-> TRUE], WhileDepth)

\* the key of select_unassigned_variable
Map_key_le(graph, dom, a, b) ==
    \/ Cardinality(dom[a]) < Cardinality(dom[b])
    \/ /\ Cardinality(dom[a]) = Cardinality(dom[b])
       /\ -Len(graph[a]) <= -Len(graph[b])

Map_unassigned(dom) == {c \in DOMAIN dom : Cardinality(dom[c]) > 1}

\* select_unassigned_variable(): min() keeps the first minimal country
Map_select_unassigned_variable(graph, dom) ==
    LET cand == Map_unassigned(dom)
        best == {c \in cand : \A d \in cand : Map_key_le(graph, dom, c, d)}
    IN  SetMin(best)

Map_is_consistent(graph, dom, country, color) ==
    \A k \in 1..Len(graph[country]) :
        ~(Cardinality(dom[graph[country][k]]) = 1 /\ color \in dom[graph[country][k]])

Map_assign(dom, country, color) == [dom EXCEPT ![country] = {color}]

Map_unassign(dom, country, original_domain) ==
    [dom EXCEPT ![country] = original_domain]

\* the test that opens backtrack()
Map_complete(dom) == \A c \in DOMAIN dom : Cardinality(dom[c]) = 1

(***************************************************************************)
(* The instances: every symmetric graph on 1..k, k <= MaxCountries, with   *)
(* neighbour lists in ascending order, a seven-country graph on which the  *)
(* search has to undo trials, a six-country graph on which the selection   *)
(* has to break a tie, a seven-country graph with a colour to spare, and   *)
(* the colour lists [1..m], m <= MaxColors, the empty list among them.     *)
(***************************************************************************)
Map_pairs(k) == {e \in (1..k) \X (1..k) : e[1] < e[2]}

Map_graph_of(k, E) ==
    [c \in 1..k |-> sorted({d \in 1..k : <<c, d>> \in E \/ <<d, c>> \in E})]

Map_seven ==
    Map_graph_of(7, {<<1, 4>>, <<1, 5>>, <<1, 7>>, <<2, 3>>, <<2, 4>>, <<2, 6>>,
                     <<3, 4>>, <<5, 6>>, <<5, 7>>, <<6, 7>>})

Map_triangle == Map_graph_of(3, {<<1, 2>>, <<1, 3>>, <<2, 3>>})

\* six countries on which two candidates of select_unassigned_variable() have
\* the same number of neighbours but not of unassigned neighbours
Map_six ==
    Map_graph_of(6, {<<1, 6>>, <<2, 4>>, <<2, 5>>, <<3, 4>>, <<3, 5>>, <<5, 6>>})

\* seven countries that three colours can colour and on which the search,
\* given four, uses all four
Map_spare ==
    Map_graph_of(7, {<<1, 4>>, <<1, 6>>, <<1, 7>>, <<2, 3>>, <<2, 5>>, <<2, 7>>,
                     <<3, 5>>, <<3, 7>>, <<4, 5>>, <<4, 6>>})

Map_start(graph, cols) ==
    /\ map_graph = graph
    /\ colors = cols
    /\ n = 0
    /\ variables = <<>>
    /\ assignment = <<>>
    /\ board = <<>>
    /\ heap = <<>>
    /\ domains = Map_init_domains(graph, cols)
    /\ stack = <<>>
    /\ ctl = "call"
    /\ ret = None
    /\ ret_entry = None
    /\ restored = NoStore
    /\ result = None
    /\ report = None
    /\ solution = None

MapInit ==
    \/ \E k \in 1..MaxCountries : \E E \in SUBSET Map_pairs(k) :
       \E m \in 0..MaxColors :
            Map_start(Map_graph_of(k, E), [i \in 1..m |-> i])
    \/ Map_start(Map_seven, <<1, 2, 3>>)
    \/ Map_start(Map_six, <<1, 2, 3>>)
    \/ Map_start(Map_spare, <<1, 2, 3, 4>>)

(***************************************************************************)
(* backtrack().  A frame holds the locals of one call: country,            *)
(* original_domain, the colours the for loop has still to try, and (as     *)
(* history) the store the call was entered with.                           *)
(***************************************************************************)
Top == stack[Len(stack)]
Pop == SubSeq(stack, 1, Len(stack) - 1)

\* entry of backtrack(): the base case, or the selection of a country
MapCall ==
    /\ ctl = "call"
    /\ UNCHANGED <<idle, domains, restored, result, report>>
    /\ IF Map_complete(domains)
       THEN /\ ret' = TRUE
            /\ ret_entry' = domains
            /\ ctl' = "ret"
            /\ UNCHANGED stack
       ELSE IF Map_unassigned(domains) = {}
       THEN \* min() of an empty sequence raises ValueError
            /\ ctl' = "fault"
            /\ UNCHANGED <<stack, ret, ret_entry>>
       ELSE LET country == Map_select_unassigned_variable(map_graph, domains)
            IN  /\ stack' = Append(stack,
                        [country |-> country,
                         original_domain |-> domains[country],
                         todo |-> sorted(domains[country]),
                         entry |-> domains])
                /\ ctl' = "loop"
                /\ UNCHANGED <<ret, ret_entry>>

\* one turn of the for loop up to the recursive call
MapTry ==
    /\ ctl = "loop"
    /\ Top.todo # <<>>
    /\ LET color == Head(Top.todo)
           country == Top.country
           a == Map_ac3(map_graph, Map_assign(domains, country, color))
       IN  /\ stack' = [stack EXCEPT ![Len(stack)].todo = Tail(@)]
           /\ IF Map_is_consistent(map_graph, domains, country, color)
              THEN IF a.ok
                   THEN /\ domains' = a.domains
                        /\ ctl' = "call"
                   ELSE /\ domains' = Map_unassign(a.domains, country,
                                                   Top.original_domain)
                        /\ ctl' = "loop"
              ELSE /\ domains' = Map_unassign(domains, country, Top.original_domain)
                   /\ ctl' = "loop"
    /\ UNCHANGED <<idle, ret, ret_entry, restored, result, report>>

\* the for loop is over: return False
MapExhausted ==
    /\ ctl = "loop"
    /\ Top.todo = <<>>
    /\ ret' = FALSE
    /\ ret_entry' = Top.entry
    /\ stack' = Pop
    /\ ctl' = "ret"
    /\ UNCHANGED <<idle, domains, restored, result, report>>

\* the caller takes the value of the recursive call
MapReturn ==
    /\ ctl = "ret"
    /\ stack # <<>>
    /\ IF ret = TRUE
       THEN /\ ret_entry' = Top.entry
            /\ stack' = Pop
            /\ UNCHANGED <<domains, ctl, ret>>
       ELSE /\ domains' = Map_unassign(domains, Top.country, Top.original_domain)
            /\ ctl' = "loop"
            /\ UNCHANGED <<stack, ret, ret_entry>>
    /\ UNCHANGED <<idle, restored, result, report>>

\* the outermost call has returned to the script
MapDone ==
    /\ ctl = "ret"
    /\ stack = <<>>
    /\ result' = ret
    /\ report' = IF ret = TRUE THEN "Map coloring solution found"
                 ELSE "No solution exists."
    /\ ctl' = "done"
    /\ UNCHANGED <<idle, domains, stack, ret, ret_entry, restored>>

MapNext == MapCall \/ MapTry \/ MapExhausted \/ MapReturn \/ MapDone

SpecMap == MapInit /\ [][MapNext]_vars

(***************************************************************************)
(* Properties of the map-colouring solver.                                 *)
(***************************************************************************)
Map_adjacent(graph, c, d) == \E k \in 1..Len(graph[c]) : graph[c][k] = d

\* a proper colouring with the colours of cols exists
Map_colourable(graph, cols) ==
    \E f \in [DOMAIN graph -> Elems(cols)] :
        \A c \in DOMAIN graph : \A k \in 1..Len(graph[c]) : f[c] # f[graph[c][k]]

Map_proper(graph, dom) ==
    /\ \A c \in DOMAIN graph : Cardinality(dom[c]) = 1
    /\ \A c, d \in DOMAIN graph : Map_adjacent(graph, c, d) => dom[c] # dom[d]

\* C2: whenever backtrack() on a fresh solver returns True, every domain is
\* a singleton and no two adjacent countries hold the same colour.
C2_MapSound == (ctl = "done" /\ result = TRUE) => Map_proper(map_graph, domains)

\* C4: whenever a proper colouring exists, backtrack() on a fresh solver
\* returns True.
C4_MapComplete ==
    (ctl \in {"done", "fault"} /\ Map_colourable(map_graph, colors))
        => (ctl = "done" /\ result = TRUE)

\* C5: on the triangle with two colours backtrack() returns False.
C5_TriangleTwoColours ==
    (map_graph = Map_triangle /\ Len(colors) = 2 /\ ctl \in {"done", "fault"})
        => (ctl = "done" /\ result = FALSE)

C5_Witness ==
    /\ map_graph = Map_triangle
    /\ Len(colors) = 2
    /\ ctl = "done"
    /\ result = FALSE
    /\ report = "No solution exists."

\* C10: whenever a call of backtrack() returns False, every country's domain
\* equals the domain it had when the call was entered.
C10_MapRestoreOnFailure == (ctl = "ret" /\ ret = FALSE) => domains = ret_entry

\* the neighbours of a country that still have more than one value
Map_open_degree(graph, dom, c) ==
    Cardinality({k \in 1..Len(graph[c]) : Cardinality(dom[graph[c][k]]) > 1})

\* C20: the country select_unassigned_variable() returns has more than one
\* value, has the fewest values among such countries, and among those with
\* the fewest values has the most neighbours that are still unassigned.
C20_MapMrvDegree ==
    (ctl = "loop" /\ map_graph # <<>>)
        => LET dom == Top.entry
               c == Top.country
           IN  /\ Cardinality(dom[c]) > 1
               /\ \A d \in Map_unassigned(dom) :
                    /\ Cardinality(dom[c]) <= Cardinality(dom[d])
                    /\ Cardinality(dom[c]) = Cardinality(dom[d])
                         => Map_open_degree(map_graph, dom, c)
                                >= Map_open_degree(map_graph, dom, d)

\* every variable's domain in store a is a subset of its domain in store b
Map_within(a, b) ==
    /\ DOMAIN a = DOMAIN b
    /\ \A c \in DOMAIN a : a[c] \subseteq b[c]

\* the least number of colours with which the graph can be properly coloured
Map_chromatic_number(graph) ==
    SetMin({m \in 0..Cardinality(DOMAIN graph) :
                Map_colourable(graph, [i \in 1..m |-> i])})

\* the colours that appear in the store
Map_colours_used(dom) == UNION {dom[c] : c \in DOMAIN dom}

\* C27: whenever backtrack() returns True, the colouring it leaves uses as
\* many distinct colours as the chromatic number of the graph, no more.
C27_MapFewestColours ==
    (ctl = "done" /\ result = TRUE)
        => Cardinality(Map_colours_used(domains)) = Map_chromatic_number(map_graph)

\* C15: a problem whose initial domains are empty (no colour, at least one
\* country) is rejected when the solver is constructed: backtrack() never
\* gets to act on it.
C15_InvalidProblemRejected ==
    (Len(colors) = 0 /\ DOMAIN map_graph # {}) => ctl = "call"

\* C16: starting from non-empty initial domains, no country has an empty
\* domain whenever backtrack() is about to test a trial colour, assign it and
\* run ac3(): the wipeout of a failed ac3() has been undone by then.
C16_MapNoStepOnEmptyDomain ==
    (ctl = "loop" /\ Top.todo # <<>> /\ Len(colors) > 0)
        => \A country \in DOMAIN domains : domains[country] # {}

(***************************************************************************)
(* NQueensSolver (Chapter 5/n-queens/main.py).  Columns and rows are       *)
(* 0..n-1; self.domains maps a column to its set of rows.                  *)
(***************************************************************************)
\* __init__
NQ_init_domains(size) == [col \in 0..size - 1 |-> 0..size - 1]

Abs(x) == IF x < 0 THEN -x ELSE x

\* NQ_is_valid_assignment without the diagonal test
NQ_is_valid_assignment_rows_only(row1, row2, col1, col2) == row1 # row2

NQ_is_valid_assignment(row1, row2, col1, col2) ==
    row1 # row2 /\ Abs(row1 - row2) # Abs(col1 - col2)

NQ_revise(dom, xi, xj) ==
    [dom EXCEPT ![xi] = {row \in dom[xi] :
        \E other_row \in dom[xj] : NQ_is_valid_assignment(row, other_row, xi, xj)}]

\* [(xi, xj) for xj in range(n) if xi != xj], then the following xi
RECURSIVE NQ_queue(_, _)
NQ_queue(size, xi) ==
    IF xi >= size THEN <<>>
    ELSE LET others == sorted((0..size - 1) \ {xi})
         IN  [k \in 1..Len(others) |-> <<xi, others[k]>>] \o NQ_queue(size, xi + 1)

NQ_requeue(size, xi, xj) ==
    LET keep == sorted((0..size - 1) \ {xi, xj})
    IN  [k \in 1..Len(keep) |-> <<keep[k], xi>>]

NQ_ac3_step(size, s) ==
    LET xi == Head(s.queue)[1]
        xj == Head(s.queue)[2]
        rest == Tail(s.queue)
        dom == NQ_revise(s.domains, xi, xj)
    IN  IF dom = s.domains THEN [s EXCEPT !.queue = rest]
        ELSE IF dom[xi] = {} THEN [domains |-> dom, queue |-> rest, ok |-> FALSE]
        ELSE [domains |-> dom, queue |-> rest \o NQ_requeue(size, xi, xj),
              ok |-> TRUE]

RECURSIVE NQ_ac3_while(_, _, _)
NQ_ac3_while(size, s, k) ==
    IF s.queue = <<>> \/ ~s.ok THEN s
    ELSE IF k = 0 THEN NQ_ac3_step(size, s)
    ELSE NQ_ac3_while(size, NQ_ac3_while(size, s, k - 1), k - 1)

NQ_ac3(size, dom) ==
    NQ_ac3_while(size,
        [domains |-> dom, queue |-> NQ_queue(size, 0), ok |-> TRUE], WhileDepth)

NQ_unassigned(dom) == {col \in DOMAIN dom : Cardinality(dom[col]) > 1}

\* min() keeps the first column of minimal domain size
NQ_select_unassigned_variable(dom) ==
    LET cand == NQ_unassigned(dom)
    IN  SetMin({c \in cand :
                  \A d \in cand : Cardinality(dom[c]) <= Cardinality(dom[d])})

NQ_order_domain_values(dom, col) == sorted(dom[col])

\* next(iter(s)) of a singleton set
TheOne(S) == CHOOSE x \in S : TRUE

NQ_is_consistent(dom, column, row) ==
    \A col \in DOMAIN dom :
        (col # column /\ Cardinality(dom[col]) = 1)
            => NQ_is_valid_assignment(row, TheOne(dom[col]), column, col)

\* NQ_assign that leaves the domain of the column as it is
NQ_assign_nothing(dom, column, row) == dom

NQ_assign(dom, column, row) == [dom EXCEPT ![column] = {row}]

\* NQ_unassign that leaves the trial value in place
NQ_unassign_nothing(dom, column, domain) == dom

NQ_unassign(dom, column, domain) == [dom EXCEPT ![column] = domain]

NQ_complete(dom) == \A col \in DOMAIN dom : Cardinality(dom[col]) = 1

\* the dict backtrack returns when every domain is a singleton
NQ_assignment(dom) == [col \in DOMAIN dom |-> TheOne(dom[col])]

\* an empty dict, and the truth value Python gives a dict
EmptyDict == <<>>
Truthy(d) == d # EmptyDict

NQInit ==
    /\ n \in 1..MaxN
    /\ map_graph = <<>>
    /\ colors = <<>>
    /\ variables = <<>>
    /\ assignment = <<>>
    /\ board = <<>>
    /\ heap = <<>>
    /\ domains = NQ_init_domains(n)
    /\ stack = <<>>
    /\ ctl = "main"
    /\ ret = None
    /\ ret_entry = None
    /\ restored = NoStore
    /\ result = None
    /\ report = None
    /\ solution = None

\* the script: if solver.ac3(): solution = solver.backtrack() ... else ...
NQMain ==
    /\ ctl = "main"
    /\ LET a == NQ_ac3(n, domains)
       IN  /\ domains' = a.domains
           /\ IF a.ok
              THEN /\ ctl' = "call"
                   /\ UNCHANGED report
              ELSE /\ ctl' = "done"
                   /\ report' = "Initial constraint makes the problem unsolvable"
    /\ UNCHANGED <<idle, stack, ret, ret_entry, restored, result>>

\* entry of backtrack()
NQCall ==
    /\ ctl = "call"
    /\ UNCHANGED <<idle, domains, restored, result, report>>
    /\ IF NQ_complete(domains)
       THEN /\ ret' = NQ_assignment(domains)
            /\ ret_entry' = domains
            /\ ctl' = "ret"
            /\ UNCHANGED stack
       ELSE IF NQ_unassigned(domains) = {}
       THEN \* min() of an empty sequence raises ValueError
            /\ ctl' = "fault"
            /\ UNCHANGED <<stack, ret, ret_entry>>
       ELSE LET column == NQ_select_unassigned_variable(domains)
            IN  /\ stack' = Append(stack,
                        [column |-> column,
                         original_domain |-> domains[column],
                         todo |-> NQ_order_domain_values(domains, column),
                         entry |-> domains])
                /\ ctl' = "loop"
                /\ UNCHANGED <<ret, ret_entry>>

\* one turn of the for loop up to the recursive call
NQTry ==
    /\ ctl = "loop"
    /\ Top.todo # <<>>
    /\ LET row == Head(Top.todo)
       IN  /\ stack' = [stack EXCEPT ![Len(stack)].todo = Tail(@)]
           /\ IF NQ_is_consistent(domains, Top.column, row)
              THEN /\ domains' = NQ_assign(domains, Top.column, row)
                   /\ ctl' = "call"
              ELSE UNCHANGED <<domains, ctl>>
    /\ UNCHANGED <<idle, ret, ret_entry, restored, result, report>>

\* the for loop is over: return {}
NQExhausted ==
    /\ ctl = "loop"
    /\ Top.todo = <<>>
    /\ ret' = EmptyDict
    /\ ret_entry' = Top.entry
    /\ stack' = Pop
    /\ ctl' = "ret"
    /\ UNCHANGED <<idle, domains, restored, result, report>>

\* result = self.backtrack(); if result: return result; self.unassign(...)
NQReturn ==
    /\ ctl = "ret"
    /\ stack # <<>>
    /\ IF Truthy(ret)
       THEN /\ ret_entry' = Top.entry
            /\ stack' = Pop
            /\ UNCHANGED <<domains, ctl, ret>>
       ELSE /\ domains' = NQ_unassign(domains, Top.column, Top.original_domain)
            /\ ctl' = "loop"
            /\ UNCHANGED <<stack, ret, ret_entry>>
    /\ UNCHANGED <<idle, restored, result, report>>

\* the script prints the solution or 'No solution exists'
NQDone ==
    /\ ctl = "ret"
    /\ stack = <<>>
    /\ result' = ret
    /\ report' = IF Truthy(ret) THEN "solution" ELSE "No solution exists"
    /\ ctl' = "done"
    /\ UNCHANGED <<idle, domains, stack, ret, ret_entry, restored>>

NQNext == NQMain \/ NQCall \/ NQTry \/ NQExhausted \/ NQReturn \/ NQDone

SpecQueens == NQInit /\ [][NQNext]_vars

(***************************************************************************)
(* Properties of the N-Queens solver.                                      *)
(***************************************************************************)
\* one row in 0..size-1 per column, no two queens on a row or a diagonal
NQ_placement(size, f) ==
    /\ DOMAIN f = 0..size - 1
    /\ \A c \in 0..size - 1 : f[c] \in 0..size - 1
    /\ \A c1, c2 \in 0..size - 1 :
            c1 # c2 => (f[c1] # f[c2] /\ Abs(f[c1] - f[c2]) # Abs(c1 - c2))

NQ_solvable(size) ==
    \E f \in [0..size - 1 -> 0..size - 1] : NQ_placement(size, f)

\* C1: if ac3() returned True and backtrack() then returns a non-empty
\* assignment, the assignment is a placement of n non-attacking queens.
C1_QueensSound ==
    (ctl = "done" /\ report # "Initial constraint makes the problem unsolvable"
        /\ Truthy(result)) => NQ_placement(n, result)

C1_Witness ==
    /\ ctl = "done"
    /\ n = MaxN
    /\ report = "solution"
    /\ Truthy(result)
    /\ NQ_placement(n, result)

\* C6: run as the script runs it, the solver reports a solution exactly when
\* an n-queens placement exists, and never ends in a fault.
C6_QueensComplete ==
    (ctl \in {"done", "fault"})
        => (ctl = "done" /\ (report = "solution" <=> NQ_solvable(n)))

C6_Witness ==
    /\ ctl = "done"
    /\ n = 4
    /\ report = "solution"
    /\ result = [c \in 0..3 |-> <<1, 3, 0, 2>>[c + 1]]

\* C18: when backtrack() recurses after a trial assignment, ac3() has been
\* run on the narrowed store and has not reported a wipeout: the store the
\* recursive call starts from is one ac3() accepts and leaves as it is.
C18_QueensPropagatesTrial ==
    (ctl = "call" /\ stack # <<>>)
        => LET a == NQ_ac3(n, domains)
           IN  a.ok /\ a.domains = domains

\* the (column, row) options a row of col rules out in the domains of the
\* other unassigned columns
NQ_ruled_out(dom, col, row) ==
    Cardinality({o \in (NQ_unassigned(dom) \ {col}) \X (0..n - 1) :
                    /\ o[2] \in dom[o[1]]
                    /\ ~NQ_is_valid_assignment(row, o[2], col, o[1])})

\* C22: the rows a call of backtrack() tries are in non-decreasing order of
\* the number of options they rule out in the other unassigned columns.
C22_QueensLcvOrder ==
    (ctl = "loop" /\ n > 0)
        => \A i, j \in DOMAIN Top.todo :
                i < j => NQ_ruled_out(Top.entry, Top.column, Top.todo[i])
                            <= NQ_ruled_out(Top.entry, Top.column, Top.todo[j])

\* C11: whenever a call of backtrack() returns the empty assignment, every
\* column's domain equals the domain it had when the call was entered.
C11_QueensRestoreOnFailure ==
    (ctl = "ret" /\ ret = EmptyDict) => domains = ret_entry

\* the call for column 2 of the 4-queens board, entered with rows 0 and 3 in
\* columns 0 and 1, has tried row 1, had it refuted, and returned {}
C11_Witness ==
    /\ ctl = "ret"
    /\ ret = EmptyDict
    /\ n = 4
    /\ domains[0] = {0}
    /\ domains[1] = {3}
    /\ domains[2] = 0..3
    /\ domains = ret_entry

(***************************************************************************)
(* SudokuSolver (Chapter 5/sudoku/main.py).  Cell (row, col) is the        *)
(* integer 9 * row + col, so that ascending cells are the insertion order  *)
(* of self.domains.  self.domains maps a cell to a set OBJECT: revise      *)
(* removes values from the object in place, and domains.copy() copies the  *)
(* references, not the sets.  heap holds the objects' contents; a set      *)
(* object is named by the cell initialize_domains made it for.  The        *)
(* iteration order of the set get_neighbors returns is CPython's.          *)
(***************************************************************************)
Side == 9
Box == 3
Cells == 0..(Side * Side - 1)
Row(pos) == pos \div Side
Col(pos) == pos % Side
Cell(row, col) == Side * row + col

\* initialize_domains(): a fresh set per cell
Sud_init_refs == [pos \in Cells |-> pos]
Sud_init_heap(b) == [pos \in Cells |-> IF b[pos] = 0 THEN 1..Side ELSE {b[pos]}]

\* the values self.domains[pos] holds, for every pos
Sud_store(dom, h) == [pos \in Cells |-> h[dom[pos]]]

Sud_is_valid_assignment(x, y) == x # y

\* Sud_get_neighbors without the subgrid loop
Sud_get_neighbors_no_box(pos) ==
    {Cell(Row(pos), i) : i \in (0..Side - 1) \ {Col(pos)}}
        \cup {Cell(i, Col(pos)) : i \in (0..Side - 1) \ {Row(pos)}}

Sud_get_neighbors(pos) ==
    {Cell(Row(pos), i) : i \in (0..Side - 1) \ {Col(pos)}}
        \cup {Cell(i, Col(pos)) : i \in (0..Side - 1) \ {Row(pos)}}
        \cup ({Cell(i, j) : i \in (Box * (Row(pos) \div Box))..(Box * (Row(pos) \div Box) + Box - 1),
                            j \in (Box * (Col(pos) \div Box))..(Box * (Col(pos) \div Box) + Box - 1)}
                \ {pos})

\* get_neighbors returns a set of (row, col) tuples; `for j in
\* self.get_neighbors(i)` visits it in the order CPython stores the tuples,
\* which is fixed by their hashes and by the order the two loops of
\* get_neighbors add them (tuples of ints hash the same in every run).
\* Row pos + 1 lists the neighbours of cell pos in that order.
Sud_neighbor_order ==
    << <<36, 72,  2,  5, 20,  9,  8, 27, 45,  1,  7, 11,  4, 19, 63, 10,  3, 18,  6, 54>>,
       <<28, 46,  2,  5, 20,  9,  8, 64,  7, 11,  4, 19, 55, 37,  0, 73, 10,  3, 18,  6>>,
       << 5, 20,  9,  8, 56, 38, 74,  1,  7, 11,  4, 19, 29, 47,  0, 10,  3, 18,  6, 65>>,
       <<39,  2, 75,  5,  8, 23, 12, 30, 48,  1,  7, 22,  4, 14, 66,  0, 13,  6, 21, 57>>,
       <<31, 49,  2,  5,  8, 23, 12, 67,  1,  7, 22, 14, 58, 40, 76,  0,  3, 13,  6, 21>>,
       << 2,  8, 23, 12, 59, 41, 77,  1,  7, 22,  4, 14, 32, 50,  0,  3, 13,  6, 21, 68>>,
       <<42,  2,  5, 78, 15,  8, 26, 51, 33,  1,  7,  4, 25, 17, 69,  0,  3, 16, 24, 60>>,
       <<34, 52,  2,  5, 15,  8, 26, 70,  1,  4, 25, 17, 61, 43,  0, 79,  3,  6, 16, 24>>,
       << 2,  5, 15, 26, 62, 44,  1,  7, 80,  4, 25, 17, 35,  0, 53,  3,  6, 16, 24, 71>>,
       <<36, 72,  2, 20, 15, 12, 27, 45,  1, 11, 19, 14, 63, 17,  0, 10, 18, 13, 16, 54>>,
       <<28, 46,  2, 20,  9, 15, 12, 64,  1, 11, 19, 14, 55, 17, 37, 73,  0, 18, 13, 16>>,
       << 2, 20,  9, 15, 12, 56, 38, 74,  1, 19, 14, 17, 29, 47,  0, 10, 18, 13, 16, 65>>,
       <<39, 75,  5,  9, 15, 23, 30, 48, 22, 11,  4, 14, 17, 66, 10,  3, 13, 21, 16, 57>>,
       <<31, 49,  5,  9, 15, 23, 12, 67, 22, 11,  4, 14, 17, 58, 40, 76, 10,  3, 21, 16>>,
       << 5,  9, 15, 23, 12, 59, 41, 77, 22, 11,  4, 17, 32, 50, 10,  3, 13, 21, 16, 68>>,
       <<42, 78,  9,  8, 12, 26, 51, 33,  7, 11, 25, 14, 17, 69, 10, 13,  6, 16, 24, 60>>,
       <<34, 52,  9, 15,  8, 12, 26, 70,  7, 11, 25, 14, 17, 61, 43, 79, 10, 13,  6, 24>>,
       << 9, 15,  8, 12, 26, 62, 44, 80,  7, 11, 25, 14, 35, 53, 10, 13,  6, 16, 24, 71>>,
       <<36, 72,  2, 20,  9, 23, 26, 27, 45,  1, 22, 11, 19, 25, 63,  0, 10, 21, 24, 54>>,
       <<28, 46,  2, 20,  9, 23, 26, 64,  1, 22, 11, 25, 55, 37, 73,  0, 10, 18, 21, 24>>,
       << 2,  9, 23, 26, 56, 38, 74,  1, 22, 11, 19, 25, 29, 47,  0, 10, 18, 21, 24, 65>>,
       <<39, 75,  5, 20, 23, 12, 26, 30, 48, 22,  4, 19, 25, 14, 66,  3, 18, 13, 24, 57>>,
       <<31, 49,  5, 20, 23, 12, 26, 67,  4, 19, 25, 14, 58, 40, 76,  3, 18, 13, 21, 24>>,
       << 5, 20, 12, 26, 59, 41, 77, 22,  4, 19, 25, 14, 32, 50,  3, 18, 13, 21, 24, 68>>,
       <<42, 78, 20, 15,  8, 23, 26, 51, 33,  7, 22, 19, 25, 17, 69, 18,  6, 21, 16, 60>>,
       <<34, 52, 20, 15,  8, 23, 26, 70,  7, 22, 19, 17, 61, 43, 79, 18,  6, 21, 16, 24>>,
       <<20, 15,  8, 23, 62, 44, 80, 22,  7, 19, 25, 17, 35, 53, 18,  6, 21, 16, 24, 71>>,
       <<36, 31, 28, 34, 46, 72,  9, 38, 30, 45, 33, 63, 29, 37, 32, 47, 35,  0, 18, 54>>,
       <<36, 31, 34, 46, 64, 38, 27, 30, 45, 33,  1, 19, 55, 29, 37, 32, 47, 35, 73, 10>>,
       <<36, 31, 28, 34, 46,  2, 20, 56, 38, 27, 30, 45, 33, 74, 11, 37, 32, 47, 35, 65>>,
       <<31, 39, 28, 34, 49, 75, 12, 27, 41, 33, 48, 66, 29, 32, 40, 35, 50,  3, 21, 57>>,
       <<39, 28, 34, 49, 67, 27, 41, 30, 33, 48, 22,  4, 58, 29, 32, 40, 35, 50, 76, 13>>,
       <<31, 39, 28, 34, 49,  5, 23, 59, 27, 41, 30, 33, 48, 77, 14, 29, 40, 35, 50, 68>>,
       <<31, 28, 34, 42, 52, 78, 15, 27, 30, 51, 44, 69, 29, 43, 32, 35, 53,  6, 24, 60>>,
       <<31, 28, 42, 52, 70, 27, 30, 51, 44, 33,  7, 25, 61, 29, 43, 32, 35, 53, 79, 16>>,
       <<31, 28, 34, 42, 52,  8, 26, 62, 27, 30, 51, 44, 33, 80, 17, 29, 43, 32, 53, 71>>,
       <<39, 28, 42, 46, 72,  9, 38, 27, 41, 45, 44, 63, 29, 37, 43, 47, 40,  0, 18, 54>>,
       <<36, 39, 28, 42, 46, 64, 38, 27, 41, 45, 44,  1, 19, 55, 29, 43, 47, 40, 73, 10>>,
       <<36, 39, 28, 42, 46,  2, 20, 56, 27, 41, 45, 44, 74, 11, 29, 37, 43, 47, 40, 65>>,
       <<36, 31, 49, 42, 75, 12, 38, 41, 30, 44, 48, 66, 37, 43, 32, 40, 50,  3, 21, 57>>,
       <<36, 31, 39, 49, 42, 67, 38, 41, 30, 44, 48, 22,  4, 58, 37, 43, 32, 50, 76, 13>>,
       <<36, 31, 39, 49, 42,  5, 23, 59, 38, 30, 44, 48, 77, 14, 37, 43, 32, 40, 50, 68>>,
       <<36, 39, 34, 52, 78, 15, 38, 41, 51, 44, 33, 69, 37, 43, 40, 35, 53,  6, 24, 60>>,
       <<36, 39, 34, 42, 52, 70, 38, 41, 51, 44, 33,  7, 25, 61, 37, 40, 35, 53, 79, 16>>,
       <<36, 39, 34, 42, 52,  8, 26, 62, 38, 41, 51, 33, 80, 17, 37, 43, 40, 35, 53, 71>>,
       <<36, 28, 49, 46, 52, 72,  9, 38, 27, 51, 48, 63, 29, 37, 47, 50,  0, 53, 18, 54>>,
       <<36, 28, 49, 52, 64, 38, 27, 45, 51, 48,  1, 19, 55, 29, 37, 47, 50, 53, 73, 10>>,
       <<36, 28, 49, 46, 52,  2, 20, 56, 38, 27, 45, 51, 48, 74, 11, 29, 37, 50, 53, 65>>,
       <<31, 39, 49, 46, 52, 75, 12, 41, 30, 45, 51, 66, 32, 47, 40, 50, 53,  3, 21, 57>>,
       <<31, 39, 46, 52, 67, 41, 30, 45, 51, 48, 22,  4, 58, 32, 47, 40, 50, 76, 53, 13>>,
       <<31, 39, 49, 46, 52,  5, 23, 59, 41, 30, 45, 51, 48, 77, 14, 32, 47, 40, 53, 68>>,
       <<34, 49, 42, 46, 52, 78, 15, 45, 44, 33, 48, 69, 43, 47, 35, 50, 53,  6, 24, 60>>,
       <<34, 49, 42, 46, 70, 45, 51, 44, 33, 48,  7, 25, 61, 43, 47, 35, 50, 53, 79, 16>>,
       <<34, 49, 42, 46, 52,  8, 26, 62, 45, 51, 44, 33, 48, 80, 17, 43, 47, 35, 50, 71>>,
       <<36, 72,  9, 56, 64, 59, 62, 27, 45, 74, 55, 63, 58, 61,  0, 73, 18, 65, 60, 57>>,
       <<28, 46, 72, 56, 64, 59, 62, 74,  1, 19, 63, 58, 61, 37, 73, 10, 65, 54, 60, 57>>,
       <<72,  2, 20, 64, 59, 62, 38, 74, 11, 55, 63, 58, 61, 29, 47, 73, 65, 54, 60, 57>>,
       <<39, 75, 12, 67, 56, 59, 62, 30, 48, 77, 55, 58, 66, 61, 76,  3, 21, 54, 60, 68>>,
       <<31, 49, 75, 67, 56, 59, 62, 77, 22,  4, 55, 66, 61, 40, 76, 13, 54, 60, 68, 57>>,
       <<75,  5, 23, 67, 56, 62, 41, 77, 14, 55, 58, 66, 61, 32, 50, 76, 54, 60, 68, 57>>,
       <<42, 78, 15, 56, 70, 59, 62, 51, 33, 80, 55, 58, 61, 69, 79,  6, 24, 54, 57, 71>>,
       <<34, 52, 78, 56, 70, 59, 62,  7, 80, 25, 55, 58, 69, 43, 79, 16, 54, 60, 57, 71>>,
       <<78,  8, 26, 56, 70, 59, 44, 80, 55, 17, 58, 61, 69, 35, 53, 79, 54, 60, 57, 71>>,
       <<36, 72,  9, 67, 56, 64, 70, 27, 45, 74, 55, 66, 69,  0, 73, 18, 65, 54, 68, 71>>,
       <<28, 46, 72, 67, 56, 70, 74,  1, 19, 55, 63, 66, 69, 37, 73, 10, 65, 54, 68, 71>>,
       <<72,  2, 20, 67, 56, 64, 70, 38, 74, 11, 55, 63, 66, 69, 29, 47, 73, 54, 68, 71>>,
       <<39, 75, 12, 67, 64, 70, 59, 30, 48, 77, 63, 58, 69, 76,  3, 21, 65, 68, 57, 71>>,
       <<31, 49, 75, 64, 70, 59, 77, 22,  4, 63, 58, 66, 69, 40, 76, 13, 65, 68, 57, 71>>,
       <<75,  5, 23, 67, 64, 70, 59, 41, 77, 14, 63, 58, 66, 69, 32, 50, 76, 65, 57, 71>>,
       <<42, 78, 15, 67, 64, 70, 62, 51, 33, 80, 63, 66, 61, 79,  6, 24, 65, 60, 68, 71>>,
       <<34, 52, 78, 67, 64, 62,  7, 80, 25, 63, 66, 61, 69, 43, 79, 16, 65, 60, 68, 71>>,
       <<78,  8, 26, 67, 64, 70, 62, 44, 80, 17, 63, 66, 61, 69, 35, 53, 79, 65, 60, 68>>,
       <<36, 75, 78,  9, 56, 64, 27, 45, 74, 77, 80, 55, 63, 76, 73,  0, 79, 18, 65, 54>>,
       <<28, 46, 72, 75, 78, 56, 64, 74, 77,  1, 80, 19, 55, 63, 37, 76, 79, 10, 65, 54>>,
       <<72,  2, 75, 78, 20, 56, 64, 38, 77, 80, 11, 55, 63, 29, 47, 76, 73, 79, 65, 54>>,
       <<39, 72, 78, 12, 67, 59, 30, 48, 74, 77, 80, 58, 66, 76, 73, 79,  3, 21, 68, 57>>,
       <<31, 49, 72, 75, 78, 67, 59, 74, 77, 80, 22,  4, 58, 66, 40, 73, 79, 13, 68, 57>>,
       <<72, 75,  5, 78, 23, 67, 59, 41, 74, 80, 14, 58, 66, 32, 50, 76, 73, 79, 68, 57>>,
       <<42, 72, 75, 15, 70, 62, 51, 33, 74, 77, 80, 61, 69, 76, 73, 79,  6, 24, 60, 71>>,
       <<34, 72, 52, 75, 78, 70, 62, 74, 77,  7, 80, 25, 61, 69, 43, 76, 73, 16, 60, 71>>,
       <<72, 75, 78,  8, 26, 70, 62, 44, 74, 77, 17, 61, 69, 35, 76, 73, 53, 79, 60, 71>> >>

Sud_neighbor_list == [pos \in Cells |-> Sud_neighbor_order[pos + 1]]

\* revise(i, j) acts on the object self.domains[i] refers to
Sud_revise(dom, h, i, j) ==
    [h EXCEPT ![dom[i]] = {x \in h[dom[i]] :
        \E y \in h[dom[j]] : Sud_is_valid_assignment(x, y)}]

RECURSIVE Sud_queue_from(_)
Sud_queue_from(i) ==
    IF i \notin Cells THEN <<>>
    ELSE [k \in 1..Len(Sud_neighbor_list[i]) |-> <<i, Sud_neighbor_list[i][k]>>]
            \o Sud_queue_from(i + 1)

Sud_queue == Sud_queue_from(0)

Sud_requeue(i, j) ==
    LET keep == SelectSeq(Sud_neighbor_list[i], LAMBDA k : k # j)
    IN  [k \in 1..Len(keep) |-> <<keep[k], i>>]

Sud_ac3_step(dom, s) ==
    LET i == Head(s.queue)[1]
        j == Head(s.queue)[2]
        rest == Tail(s.queue)
        h == Sud_revise(dom, s.heap, i, j)
    IN  IF h = s.heap THEN [s EXCEPT !.queue = rest]
        ELSE IF h[dom[i]] = {} THEN [heap |-> h, queue |-> rest, ok |-> FALSE]
        ELSE [heap |-> h, queue |-> rest \o Sud_requeue(i, j), ok |-> TRUE]

RECURSIVE Sud_ac3_while(_, _, _)
Sud_ac3_while(dom, s, k) ==
    IF s.queue = <<>> \/ ~s.ok THEN s
    ELSE IF k = 0 THEN Sud_ac3_step(dom, s)
    ELSE Sud_ac3_while(dom, Sud_ac3_while(dom, s, k - 1), k - 1)

\* ac3(): [heap |-> the objects' contents it leaves, ok |-> its return value]
Sud_ac3(dom, h) ==
    Sud_ac3_while(dom, [heap |-> h, queue |-> Sud_queue, ok |-> TRUE], WhileDepth)

Sud_empty_cells(b) == {pos \in Cells : b[pos] = 0}

\* a selection that returns the first cell, empty or not
Sud_select_first_cell(b, dom, h) == 0

\* min() keeps the first empty cell of minimal domain size
Sud_select_unassigned_variable(b, dom, h) ==
    LET cand == Sud_empty_cells(b)
    IN  SetMin({c \in cand : \A d \in cand :
                    Cardinality(h[dom[c]]) <= Cardinality(h[dom[d]])})

\* Sud_is_valid that accepts every value
Sud_is_valid_always(b, num, pos) == TRUE

Sud_is_valid(b, num, pos) ==
    \A i \in 0..Side - 1 :
        /\ num # b[Cell(Row(pos), i)]
        /\ num # b[Cell(i, Col(pos))]
        /\ num # b[Cell(Box * (Row(pos) \div Box) + (i \div Box),
                        Box * (Col(pos) \div Box) + (i % Box))]

\* a board written row by row
Sud_board(rows) == [pos \in Cells |-> rows[pos + 1]]

\* the board of the script
Sud_puzzle == Sud_board(
    << 0, 0, 5, 0, 0, 4, 0, 7, 0,
       0, 0, 0, 7, 0, 0, 2, 4, 0,
       4, 0, 7, 0, 0, 6, 9, 3, 1,
       0, 0, 8, 0, 7, 0, 1, 0, 0,
       0, 0, 0, 9, 2, 0, 0, 0, 3,
       0, 0, 0, 0, 6, 8, 0, 0, 0,
       0, 7, 0, 0, 0, 0, 3, 0, 0,
       3, 0, 9, 1, 0, 5, 0, 6, 0,
       2, 5, 0, 0, 4, 0, 0, 0, 0 >>)

\* the solved board of the file's trailing docstring
Sud_output == Sud_board(
    << 9, 1, 5, 2, 3, 4, 6, 7, 8,
       6, 8, 3, 7, 1, 9, 2, 4, 5,
       4, 2, 7, 8, 5, 6, 9, 3, 1,
       5, 9, 8, 4, 7, 3, 1, 2, 6,
       7, 6, 4, 9, 2, 1, 5, 8, 3,
       1, 3, 2, 5, 6, 8, 4, 9, 7,
       8, 7, 1, 6, 9, 2, 3, 5, 4,
       3, 4, 9, 1, 8, 5, 7, 6, 2,
       2, 5, 6, 3, 4, 7, 8, 1, 9 >>)

(***************************************************************************)
(* The boards: the script's puzzle, the puzzle with a clue no solution has  *)
(* in cell (0, 0) or (0, 1), where ac3() meets emptied domains, and the    *)
(* solved board with its first MaxEdits cells overwritten by anything in   *)
(* 0..9 (blanks, other clues, clashing clues).                             *)
(***************************************************************************)
Sud_dead_ends == {[Sud_puzzle EXCEPT ![Cell(0, 0)] = 1],
                  [Sud_puzzle EXCEPT ![Cell(0, 1)] = 2]}

Sud_start(b) ==
    /\ board = b
    /\ heap = Sud_init_heap(b)
    /\ domains = Sud_init_refs
    /\ map_graph = <<>>
    /\ colors = <<>>
    /\ n = 0
    /\ variables = <<>>
    /\ assignment = <<>>
    /\ stack = <<>>
    /\ ctl = "call"
    /\ ret = None
    /\ ret_entry = None
    /\ restored = NoStore
    /\ result = None
    /\ report = None
    /\ solution = None

SudInit ==
    \/ Sud_start(Sud_puzzle)
    \/ \E b \in Sud_dead_ends : Sud_start(b)
    \/ \E e \in [0..MaxEdits - 1 -> 0..Side] :
            Sud_start([pos \in Cells |-> IF pos < MaxEdits THEN e[pos] ELSE Sud_output[pos]])

\* entry of backtracking()
SudCall ==
    /\ ctl = "call"
    /\ restored' = NoStore
    /\ UNCHANGED <<params, assignment, board, heap, domains, result, report>>
    /\ IF Sud_empty_cells(board) = {}
       THEN /\ ret' = TRUE
            /\ ret_entry' = [store |-> Sud_store(domains, heap), board |-> board]
            /\ ctl' = "ret"
            /\ UNCHANGED stack
       ELSE LET cell == Sud_select_unassigned_variable(board, domains, heap)
            IN  /\ stack' = Append(stack,
                        [cell |-> cell,
                         todo |-> sorted(heap[domains[cell]]),
                         backup |-> None,
                         snapshot |-> None,
                         entry |-> [store |-> Sud_store(domains, heap),
                                    board |-> board]])
                /\ ctl' = "loop"
                /\ UNCHANGED <<ret, ret_entry>>

\* one turn of the for loop up to the recursive call
SudTry ==
    /\ ctl = "loop"
    /\ Top.todo # <<>>
    /\ LET value == Head(Top.todo)
           cell == Top.cell
           backup == domains
           a == Sud_ac3(domains, heap)
       IN  IF Sud_is_valid(board, value, cell)
           THEN /\ heap' = a.heap
                /\ IF a.ok
                   THEN /\ board' = [board EXCEPT ![cell] = value]
                        /\ stack' = [stack EXCEPT
                                ![Len(stack)].todo = Tail(@),
                                ![Len(stack)].backup = backup,
                                ![Len(stack)].snapshot = Sud_store(domains, heap)]
                        /\ ctl' = "call"
                        /\ UNCHANGED domains
                        /\ restored' = NoStore
                   ELSE /\ board' = [board EXCEPT ![cell] = 0]
                        /\ domains' = backup
                        /\ restored' = Sud_store(domains, heap)
                        /\ stack' = [stack EXCEPT ![Len(stack)].todo = Tail(@)]
                        /\ ctl' = "loop"
           ELSE /\ stack' = [stack EXCEPT ![Len(stack)].todo = Tail(@)]
                /\ restored' = NoStore
                /\ UNCHANGED <<board, heap, domains, ctl>>
    /\ UNCHANGED <<params, assignment, ret, ret_entry, result, report>>

\* the for loop is over: return False
SudExhausted ==
    /\ ctl = "loop"
    /\ Top.todo = <<>>
    /\ ret' = FALSE
    /\ ret_entry' = Top.entry
    /\ stack' = Pop
    /\ ctl' = "ret"
    /\ restored' = NoStore
    /\ UNCHANGED <<params, assignment, board, heap, domains, result, report>>

\* the caller takes the value of the recursive call
SudReturn ==
    /\ ctl = "ret"
    /\ stack # <<>>
    /\ IF ret = TRUE
       THEN /\ ret_entry' = Top.entry
            /\ stack' = Pop
            /\ restored' = NoStore
            /\ UNCHANGED <<board, domains, ctl, ret>>
       ELSE /\ board' = [board EXCEPT ![Top.cell] = 0]
            /\ domains' = Top.backup
            /\ restored' = Top.snapshot
            /\ ctl' = "loop"
            /\ UNCHANGED <<stack, ret, ret_entry>>
    /\ UNCHANGED <<params, assignment, heap, result, report>>

\* the outermost call has returned to the script
SudDone ==
    /\ ctl = "ret"
    /\ stack = <<>>
    /\ result' = ret
    /\ report' = IF ret = TRUE THEN "Solved Sudoku Board:" ELSE "No solution exists."
    /\ ctl' = "done"
    /\ restored' = NoStore
    /\ UNCHANGED <<params, assignment, board, heap, domains, stack, ret, ret_entry>>

SudNext == SudCall \/ SudTry \/ SudExhausted \/ SudReturn \/ SudDone

SpecSudoku == SudInit /\ [][SudNext]_vars

(***************************************************************************)
(* Properties of the Sudoku solver.                                        *)
(***************************************************************************)
\* no empty cell, and no value twice in a row, a column or a subgrid
Sud_solved(b) ==
    /\ \A pos \in Cells : b[pos] # 0
    /\ \A pos \in Cells : \A q \in Sud_get_neighbors(pos) : b[pos] # b[q]

\* C3: whenever backtracking() returns True the board has no empty cell and
\* no two cells of a row, a column or a subgrid hold the same value.
C3_SudokuSound == (ctl = "done" /\ result = TRUE) => Sud_solved(board)

\* C7: on the script's puzzle backtracking() returns True and leaves the
\* board of the file's output docstring.
C7_SudokuScenario ==
    (ctl = "done" /\ ret_entry.board = Sud_puzzle)
        => (result = TRUE /\ board = Sud_output)

C7_Witness ==
    /\ ctl = "done"
    /\ ret_entry.board = Sud_puzzle
    /\ result = TRUE
    /\ board = Sud_output

\* C9: right after "self.domains = backup" every cell's domain holds exactly
\* the values it held when backup was taken.
C9_SudokuRestoreExact ==
    restored # NoStore => Sud_store(domains, heap) = restored

(***************************************************************************)
(* CryptarithmeticSolver (Chapter 5/cryptarithmetic_backtracking/main.py). *)
(* Letters are strings, a dict is a function on its keys, and an Optional  *)
(* value is a list: <<>> for None, <<d>> for the dict d.                   *)
(*                                                                         *)
(* order_domain_values() returns a domain in the order Python iterates the *)
(* set, so a domain is kept as the hash table CPython holds for it: size   *)
(* is the number of slots, entries the slots that hold a digit, each as    *)
(* <<slot, digit>>, in slot order, and dummies the number of slots that    *)
(* carry the mark remove() leaves.  A digit is its own hash.  Iteration    *)
(* runs through the slots in order.                                        *)
(***************************************************************************)
Nothing == <<>>
Some(d) == <<d>>

Digits == 0..9

\* the slots of an empty set's first table
Cr_set_minsize == 8

Cr_set_empty(size) == [size |-> size, entries |-> <<>>, dummies |-> 0]

\* len(s)
Cr_set_used(t) == Len(t.entries)

\* the slots that are or were in use
Cr_set_fill(t) == Len(t.entries) + t.dummies

\* the values of the set
Cr_set_values(t) == {t.entries[i][2] : i \in DOMAIN t.entries}

\* list(s), for x in s: the digits in slot order
Cr_set_iter(t) == [i \in DOMAIN t.entries |-> t.entries[i][2]]

\* the slot a new key takes in a table without dummies when its probe is
\* at slot i: the first free one of the run of linear probes, or else the
\* search goes on at 5 * i + 1
RECURSIVE Cr_set_slot(_, _)
Cr_set_slot(t, i) ==
    LET probes == IF i + 9 <= t.size - 1 THEN 9 ELSE 0
        taken == {t.entries[k][1] : k \in DOMAIN t.entries}
        free == (i..(i + probes)) \ taken
    IN  IF free # {} THEN SetMin(free)
        ELSE Cr_set_slot(t, (5 * i + 1) % t.size)

\* a key the table does not hold is put in
Cr_set_insert_clean(t, d) ==
    LET slot == Cr_set_slot(t, d % t.size)
        before == SelectSeq(t.entries, LAMBDA e : e[1] < slot)
        after == SelectSeq(t.entries, LAMBDA e : e[1] > slot)
    IN  [t EXCEPT !.entries = before \o << <<slot, d>> >> \o after]

RECURSIVE Cr_set_insert_all(_, _)
Cr_set_insert_all(t, list) ==
    IF list = <<>> THEN t
    ELSE Cr_set_insert_all(Cr_set_insert_clean(t, Head(list)), Tail(list))

\* the size of a table made for minused keys
RECURSIVE Cr_set_newsize(_, _)
Cr_set_newsize(minused, size) ==
    IF size <= minused THEN Cr_set_newsize(minused, 2 * size) ELSE size

\* a new table for minused keys, the keys put in again in slot order
Cr_set_resize(t, minused) ==
    Cr_set_insert_all(Cr_set_empty(Cr_set_newsize(minused, Cr_set_minsize)),
                      Cr_set_iter(t))

\* s.add(d) while a set is built (no slot carries a dummy); the table grows
\* when three fifths of it are filled
Cr_set_add(t, d) ==
    IF d \in Cr_set_values(t) THEN t
    ELSE LET u == Cr_set_insert_clean(t, d)
         IN  IF Cr_set_fill(u) * 5 < (u.size - 1) * 3 THEN u
             ELSE Cr_set_resize(u, Cr_set_used(u) * 4)

RECURSIVE Cr_set_add_all(_, _)
Cr_set_add_all(t, list) ==
    IF list = <<>> THEN t
    ELSE Cr_set_add_all(Cr_set_add(t, Head(list)), Tail(list))

\* set(list), and the set display {a, b, ...}
Cr_set_new(list) == Cr_set_add_all(Cr_set_empty(Cr_set_minsize), list)

\* s.remove(d): the slot of d becomes a dummy
Cr_set_remove(t, d) ==
    IF d \notin Cr_set_values(t) THEN t
    ELSE [t EXCEPT !.entries = SelectSeq(@, LAMBDA e : e[2] # d),
                   !.dummies = @ + 1]

\* s.copy(): slot by slot into a table of the same size when s has no
\* dummies; otherwise the keys are put into the new table in slot order
Cr_set_copy(t) ==
    LET used == Cr_set_used(t)
        size == IF used * 5 >= (Cr_set_minsize - 1) * 3
                THEN Cr_set_newsize(used * 2, Cr_set_minsize)
                ELSE Cr_set_minsize
    IN  IF size = t.size /\ t.dummies = 0 THEN t
        ELSE Cr_set_insert_all(Cr_set_empty(size), Cr_set_iter(t))

\* range(10)
Cr_range(k) == [i \in 1..k |-> i - 1]

\* the values of every letter's domain
Cr_values(dom) == [v \in DOMAIN dom |-> Cr_set_values(dom[v])]

\* __init__: self.domains = {var: set(range(10)) for var in variables}
Cr_init_domains(vs) == [v \in Elems(vs) |-> Cr_set_new(Cr_range(10))]

\* create_constraints(): the pairs (variables[i], variables[j]) with i < j,
\* row by row
RECURSIVE Cr_constraints_from(_, _)
Cr_constraints_from(vs, i) ==
    IF i > Len(vs) THEN <<>>
    ELSE [j \in 1..(Len(vs) - i) |-> <<vs[i], vs[i + j]>>]
            \o Cr_constraints_from(vs, i + 1)

Cr_create_constraints(vs) == Cr_constraints_from(vs, 1)

\* remove() for every digit of a set
RECURSIVE Cr_set_remove_all(_, _)
Cr_set_remove_all(t, S) ==
    IF S = {} THEN t
    ELSE Cr_set_remove_all(Cr_set_remove(t, SetMin(S)), S \ {SetMin(S)})

\* Cr_revise with all() in the place of any()
Cr_revise_all(dom, xi, xj) ==
    LET ys == Cr_set_values(dom[xj])
    IN  Cr_set_remove_all(dom[xi],
            {x \in Cr_set_values(dom[xi]) : ~\A y \in ys : x # y})

\* revise(xi, xj): xi's set without the values that differ from no value of
\* xj
Cr_revise(dom, xi, xj) ==
    LET ys == Cr_set_values(dom[xj])
    IN  Cr_set_remove_all(dom[xi],
            {x \in Cr_set_values(dom[xi]) : ~\E y \in ys : x # y})

\* for xk in self.variables: if xk != xi: queue.append((xk, xi))
Cr_requeue(vs, xi) ==
    LET others == SelectSeq(vs, LAMBDA xk : xk # xi)
    IN  [k \in 1..Len(others) |-> <<others[k], xi>>]

\* one turn of the while loop of ac3
Cr_ac3_step(vs, s) ==
    LET xi == Head(s.queue)[1]
        xj == Head(s.queue)[2]
        new == Cr_revise(s.domains, xi, xj)
    IN  IF new = s.domains[xi]
        THEN [s EXCEPT !.queue = Tail(@)]
        ELSE IF Cr_set_used(new) = 0
        THEN [domains |-> [s.domains EXCEPT ![xi] = new],
              queue |-> Tail(s.queue),
              ok |-> FALSE]
        ELSE [domains |-> [s.domains EXCEPT ![xi] = new],
              queue |-> Tail(s.queue) \o Cr_requeue(vs, xi),
              ok |-> TRUE]

\* the while loop of ac3, followed for at most 2^k turns
RECURSIVE Cr_ac3_while(_, _, _)
Cr_ac3_while(vs, s, k) ==
    IF s.queue = <<>> \/ ~s.ok THEN s
    ELSE IF k = 0 THEN Cr_ac3_step(vs, s)
    ELSE Cr_ac3_while(vs, Cr_ac3_while(vs, s, k - 1), k - 1)

\* ac3(): the domains it leaves and the value it returns
Cr_ac3(vs, dom) ==
    Cr_ac3_while(vs, [domains |-> dom, queue |-> Cr_create_constraints(vs),
                      ok |-> TRUE], WhileDepth)

\* [var for var in self.variables if var not in assignment]
Cr_unassigned(vs, a) == SelectSeq(vs, LAMBDA v : v \notin DOMAIN a)

\* if not unassigned: return None; min(unassigned, key=len(domain)): the
\* first of the smallest domains
Cr_select_unassigned_variable(vs, a, dom) ==
    LET u == Cr_unassigned(vs, a)
        least == SetMin({Cr_set_used(dom[u[i]]) : i \in DOMAIN u})
    IN  IF u = <<>> THEN None
        ELSE u[SetMin({i \in DOMAIN u : Cr_set_used(dom[u[i]]) = least})]

\* value == self.domains[neighbor]: an int never equals a set
Cr_int_eq_set(value, S) == FALSE

\* count_constraints(var, value, assignment)
Cr_count_constraints(vs, dom, a, var, value) ==
    Cardinality({i \in DOMAIN vs :
                    /\ vs[i] # var
                    /\ vs[i] \notin DOMAIN a
                    /\ Cr_int_eq_set(value, dom[vs[i]])})

\* sorted(list, key): stable, so equal keys keep the order of the list;
\* keys[i] is the key of list[i]
RECURSIVE Cr_sorted_by(_, _)
Cr_sorted_by(list, keys) ==
    IF list = <<>> THEN <<>>
    ELSE LET least == SetMin({keys[i] : i \in DOMAIN keys})
             at == SetMin({i \in DOMAIN keys : keys[i] = least})
             without(q) == SubSeq(q, 1, at - 1) \o SubSeq(q, at + 1, Len(q))
         IN  <<list[at]>> \o Cr_sorted_by(without(list), without(keys))

\* order_domain_values(var, assignment): sorted() takes the values in the
\* order the set is iterated in
Cr_order_domain_values(vs, dom, a, var) ==
    LET list == Cr_set_iter(dom[var])
    IN  Cr_sorted_by(list, [i \in DOMAIN list |->
                                Cr_count_constraints(vs, dom, a, var, list[i])])

\* the letters the sum reads
Cr_letters == {"S", "E", "N", "D", "M", "O", "R", "Y"}

\* is_valid_solution that takes any assignment of distinct digits
Cr_is_valid_solution_no_sum(a) ==
    IF Cardinality({a[v] : v \in DOMAIN a}) < Cardinality(DOMAIN a) THEN "False"
    ELSE IF "S" \notin DOMAIN a THEN "KeyError"
    ELSE IF a["S"] = 0 THEN "False"
    ELSE IF "M" \notin DOMAIN a THEN "KeyError"
    ELSE IF a["M"] = 0 THEN "False"
    ELSE IF ~(Cr_letters \subseteq DOMAIN a) THEN "KeyError"
    ELSE "True"

\* is_valid_solution(assignment): "True", "False", or the KeyError of a
\* letter the assignment lacks
Cr_is_valid_solution(a) ==
    IF Cardinality({a[v] : v \in DOMAIN a}) < Cardinality(DOMAIN a) THEN "False"
    ELSE IF "S" \notin DOMAIN a THEN "KeyError"
    ELSE IF a["S"] = 0 THEN "False"
    ELSE IF "M" \notin DOMAIN a THEN "KeyError"
    ELSE IF a["M"] = 0 THEN "False"
    ELSE IF ~(Cr_letters \subseteq DOMAIN a) THEN "KeyError"
    ELSE LET send == 1000 * a["S"] + 100 * a["E"] + 10 * a["N"] + a["D"]
             more == 1000 * a["M"] + 100 * a["O"] + 10 * a["R"] + a["E"]
             money == 10000 * a["M"] + 1000 * a["O"] + 100 * a["N"]
                        + 10 * a["E"] + a["Y"]
         IN  IF send + more = money THEN "True" ELSE "False"

\* all(value != assignment.get(neigh) for neigh in assignment)
Cr_value_free(a, value) == \A neigh \in DOMAIN a : value # a[neigh]

\* assignment[var] = value
Cr_set(a, var, value) ==
    [v \in DOMAIN a \cup {var} |-> IF v = var THEN value ELSE a[v]]

\* Cr_del that leaves the pair in the dict
Cr_del_nothing(a, var) == a

\* del assignment[var]
Cr_del(a, var) == [v \in DOMAIN a \ {var} |-> a[v]]

\* the values of the domain store and the assignment, as the history
\* variables record them
Cr_store(dom, a) == [domains |-> Cr_values(dom), assignment |-> a]

\* variables of the script's main block
Cr_script_variables == <<"S", "E", "N", "D", "M", "O", "R", "Y">>

\* the state after solver = CryptarithmeticSolver(vs)
Cr_start(vs) ==
    /\ variables = vs
    /\ domains = Cr_init_domains(vs)
    /\ assignment = <<>>
    /\ map_graph = <<>>
    /\ colors = <<>>
    /\ n = 0
    /\ board = <<>>
    /\ heap = <<>>
    /\ stack = <<>>
    /\ ctl = "main"
    /\ ret = None
    /\ ret_entry = None
    /\ restored = NoStore
    /\ result = None
    /\ report = None
    /\ solution = None

\* The letter lists the solver is constructed with: orders of the puzzle's
\* letters whose search is short, a list that lacks letters of the sum, and
\* a list that names a letter twice.
Cr_inputs ==
    { <<"O", "M", "Y", "E", "N", "D", "R", "S">>,
      <<"O", "M", "Y", "E", "N", "D", "S", "R">>,
      <<"S", "M">>,
      <<"S", "S">> }

\* The search of the script's own list takes some 2.5 million calls of
\* backtrack, so it is joined late: S holds 9 (its values 0..8 have been tried
\* and undone), E is the selected letter, its values 0..4 have been tried
\* and undone, and the for loop of E is about to take 5.
Cr_resume ==
    LET full == Cr_init_domains(Cr_script_variables)
        s9 == [v \in {"S"} |-> 9]
    IN  /\ variables = Cr_script_variables
        /\ domains = full
        /\ assignment = s9
        /\ map_graph = <<>>
        /\ colors = <<>>
        /\ n = 0
        /\ board = <<>>
        /\ heap = <<>>
        /\ stack = << [var |-> "S",
                       todo |-> <<>>,
                       original_domains |-> full,
                       entry |-> Cr_store(full, <<>>)],
                      [var |-> "E",
                       todo |-> <<5, 6, 7, 8, 9>>,
                       original_domains |-> full,
                       entry |-> Cr_store(full, s9)] >>
        /\ ctl = "loop"
        /\ ret = Nothing
        /\ ret_entry = Cr_store(full, Cr_set(s9, "E", 4))
        /\ restored = Cr_store(full, s9)
        /\ result = None
        /\ report = None
        /\ solution = None

CrInit == \E vs \in Cr_inputs : Cr_start(vs)

\* solve(): if not self.ac3(): return None; return self.backtrack({})
CrMain ==
    /\ ctl = "main"
    /\ LET a == Cr_ac3(variables, domains)
       IN  /\ domains' = a.domains
           /\ IF a.ok
              THEN /\ ctl' = "call"
                   /\ UNCHANGED <<ret, ret_entry>>
              ELSE /\ ret' = Nothing
                   /\ ret_entry' = Cr_store(domains, assignment)
                   /\ ctl' = "ret"
    /\ UNCHANGED <<params, assignment, board, heap, stack, restored, result, report>>

\* entry of backtrack(assignment)
CrCall ==
    /\ ctl = "call"
    /\ restored' = NoStore
    /\ UNCHANGED <<params, assignment, board, heap, domains, result, report>>
    /\ IF Cardinality(DOMAIN assignment) = Len(variables)
       THEN LET valid == Cr_is_valid_solution(assignment)
            IN  IF valid = "KeyError"
                THEN /\ ctl' = "fault"
                     /\ UNCHANGED <<stack, ret, ret_entry>>
                ELSE /\ ret' = IF valid = "True" THEN Some(assignment) ELSE Nothing
                     /\ ret_entry' = Cr_store(domains, assignment)
                     /\ ctl' = "ret"
                     /\ UNCHANGED stack
       ELSE LET var == Cr_select_unassigned_variable(variables, assignment, domains)
            IN  IF var = None
                THEN /\ ret' = Nothing
                     /\ ret_entry' = Cr_store(domains, assignment)
                     /\ ctl' = "ret"
                     /\ UNCHANGED stack
                ELSE /\ stack' = Append(stack,
                            [var |-> var,
                             todo |-> Cr_order_domain_values(variables, domains,
                                                             assignment, var),
                             original_domains |-> Nothing,
                             entry |-> Cr_store(domains, assignment)])
                     /\ ctl' = "loop"
                     /\ UNCHANGED <<ret, ret_entry>>

\* one turn of the for loop up to the recursive call; a failed ac3 is undone
\* at once (self.domains = original_domains; del assignment[var])
CrTry ==
    /\ ctl = "loop"
    /\ Top.todo # <<>>
    /\ LET value == Head(Top.todo)
           original_domains == [v \in DOMAIN domains |-> Cr_set_copy(domains[v])]
           a == Cr_ac3(variables, domains)
       IN  IF ~Cr_value_free(assignment, value)
           THEN /\ stack' = [stack EXCEPT ![Len(stack)].todo = Tail(@)]
                /\ restored' = NoStore
                /\ UNCHANGED <<assignment, domains, ctl>>
           ELSE /\ stack' = [stack EXCEPT
                                ![Len(stack)].todo = Tail(@),
                                ![Len(stack)].original_domains = original_domains]
                /\ IF a.ok
                   THEN /\ assignment' = Cr_set(assignment, Top.var, value)
                        /\ domains' = a.domains
                        /\ restored' = NoStore
                        /\ ctl' = "call"
                   ELSE /\ assignment' = Cr_del(Cr_set(assignment, Top.var, value),
                                                Top.var)
                        /\ domains' = original_domains
                        /\ restored' = Cr_store(original_domains, assignment)
                        /\ UNCHANGED ctl
    /\ UNCHANGED <<params, board, heap, ret, ret_entry, result, report>>

\* the for loop is over: return None
CrExhausted ==
    /\ ctl = "loop"
    /\ Top.todo = <<>>
    /\ ret' = Nothing
    /\ ret_entry' = Top.entry
    /\ stack' = Pop
    /\ ctl' = "ret"
    /\ restored' = NoStore
    /\ UNCHANGED <<params, assignment, board, heap, domains, result, report>>

\* result = self.backtrack(assignment); if result is not None: return result;
\* self.domains = original_domains; del assignment[var]
CrReturn ==
    /\ ctl = "ret"
    /\ stack # <<>>
    /\ IF ret # Nothing
       THEN /\ ret_entry' = Top.entry
            /\ stack' = Pop
            /\ restored' = NoStore
            /\ UNCHANGED <<assignment, domains, ret, ctl>>
       ELSE /\ domains' = Top.original_domains
            /\ assignment' = Cr_del(assignment, Top.var)
            /\ restored' = Cr_store(Top.original_domains,
                                    Cr_del(assignment, Top.var))
            /\ ctl' = "loop"
            /\ UNCHANGED <<stack, ret, ret_entry>>
    /\ UNCHANGED <<params, board, heap, result, report>>

\* the script: solution = solver.solve(); if solution: print ... else ...
CrDone ==
    /\ ctl = "ret"
    /\ stack = <<>>
    /\ result' = ret
    /\ report' = IF ret # Nothing /\ DOMAIN ret[1] # {}
                 THEN "SEND + MORE = MONEY"
                 ELSE "No solution found."
    /\ ctl' = "done"
    /\ restored' = NoStore
    /\ UNCHANGED <<params, assignment, board, heap, domains, stack, ret, ret_entry>>

CrNext == CrMain \/ CrCall \/ CrTry \/ CrExhausted \/ CrReturn \/ CrDone

SpecCrypt == CrInit /\ [][CrNext]_vars

(***************************************************************************)
(* The brute-force script (Chapter 5/cryptarithmetic/main.py).             *)
(***************************************************************************)
\* letters = 'SENDMORY'
Bf_letters == <<"S", "E", "N", "D", "M", "O", "R", "Y">>

\* {letter: digit for letter, digit in zip(letters, perm)}
Bf_zip(perm) ==
    [S |-> perm[1], E |-> perm[2], N |-> perm[3], D |-> perm[4],
     M |-> perm[5], O |-> perm[6], R |-> perm[7], Y |-> perm[8]]

\* is_valid_solution(assignment)
Bf_is_valid_solution(a) ==
    LET send == a.S * 1000 + a.E * 100 + a.N * 10 + a.D
        more == a.M * 1000 + a.O * 100 + a.R * 10 + a.E
        money == a.M * 10000 + a.O * 1000 + a.N * 100 + a.E * 10 + a.Y
    IN  send + more = money

\* the body of the for loop: TRUE when it returns the assignment of perm
Bf_accepts(perm) ==
    LET a == Bf_zip(perm)
    IN  IF a.S = 0 \/ a.M = 0 THEN FALSE ELSE Bf_is_valid_solution(a)

\* for perm in permutations(range(10), len(letters)): the tuples of distinct
\* digits in lexicographic order, from the ones that extend prefix p on; the
\* first one the loop body accepts, <<>> when there is none
RECURSIVE Bf_first(_, _), Bf_scan(_, _, _)
Bf_first(letters, p) ==
    IF Len(p) = Len(letters)
    THEN (IF Bf_accepts(p) THEN p ELSE <<>>)
    ELSE Bf_scan(letters, p, 0)

Bf_scan(letters, p, d) ==
    IF d \notin Digits THEN <<>>
    ELSE IF \E i \in DOMAIN p : p[i] = d THEN Bf_scan(letters, p, d + 1)
    ELSE LET r == Bf_first(letters, Append(p, d))
         IN  IF r # <<>> THEN r ELSE Bf_scan(letters, p, d + 1)

\* solve_cryptoarithmetic()
Bf_solve_cryptoarithmetic(letters) ==
    LET perm == Bf_first(letters, <<>>)
    IN  IF perm = <<>> THEN Nothing ELSE Some(Bf_zip(perm))

\* the brute-force script, run once the solver's script has ended
BfMain ==
    /\ ctl = "done"
    /\ variables = Cr_script_variables
    /\ solution' = Bf_solve_cryptoarithmetic(Bf_letters)
    /\ ctl' = "end"
    /\ UNCHANGED <<map_graph, colors, n, variables, assignment, board, heap, domains,
                   stack, ret, ret_entry, restored, result, report>>

\* both scripts, one after the other
ScriptsInit == CrInit \/ Cr_resume

ScriptsNext == CrNext \/ BfMain

SpecCryptScripts == ScriptsInit /\ [][ScriptsNext]_vars

(***************************************************************************)
(* Properties of the cryptarithmetic solvers.                              *)
(***************************************************************************)
\* a digit for each letter of the puzzle, no digit twice, no leading zero,
\* and SEND + MORE = MONEY
Cr_valid_mapping(a) ==
    /\ DOMAIN a = Cr_letters
    /\ \A v \in Cr_letters : a[v] \in Digits
    /\ \A v, w \in Cr_letters : v # w => a[v] # a[w]
    /\ a["S"] # 0
    /\ a["M"] # 0
    /\ (1000 * a["S"] + 100 * a["E"] + 10 * a["N"] + a["D"])
         + (1000 * a["M"] + 100 * a["O"] + 10 * a["R"] + a["E"])
       = 10000 * a["M"] + 1000 * a["O"] + 100 * a["N"] + 10 * a["E"] + a["Y"]

Cr_send_more_money ==
    [S |-> 9, E |-> 5, N |-> 6, D |-> 7, M |-> 1, O |-> 0, R |-> 8, Y |-> 2]

(***************************************************************************)
(* The three solvers that search with propagation, side by side: an        *)
(* instance is a map, a board of n queens or a Sudoku grid, and every step *)
(* is a step of the solver the instance belongs to.                        *)
(***************************************************************************)
SearchInit == MapInit \/ NQInit \/ SudInit

SearchNext ==
    \/ map_graph # <<>> /\ MapCall
    \/ map_graph # <<>> /\ MapTry
    \/ map_graph # <<>> /\ MapExhausted
    \/ map_graph # <<>> /\ MapReturn
    \/ map_graph # <<>> /\ MapDone
    \/ n > 0 /\ NQMain
    \/ n > 0 /\ NQCall
    \/ n > 0 /\ NQTry
    \/ n > 0 /\ NQExhausted
    \/ n > 0 /\ NQReturn
    \/ n > 0 /\ NQDone
    \/ DOMAIN board # {} /\ SudCall
    \/ DOMAIN board # {} /\ SudTry
    \/ DOMAIN board # {} /\ SudExhausted
    \/ DOMAIN board # {} /\ SudReturn
    \/ DOMAIN board # {} /\ SudDone

SpecSearch == SearchInit /\ [][SearchNext]_vars

\* Monotone shrinking in map colouring: a trial assignment and the ac3()
\* that follows it leave every domain a subset of what it was immediately
\* before, and revise(xi, xj) changes no domain other than xi's.
Map_shrinking_step ==
    (/\ ctl = "loop"
     /\ map_graph # <<>>
     /\ Top.todo # <<>>
     /\ Map_is_consistent(map_graph, domains, Top.country, Head(Top.todo)))
        => LET trial == Map_assign(domains, Top.country, Head(Top.todo))
               a == Map_ac3(map_graph, trial)
           IN  /\ Map_within(trial, domains)
               /\ Map_within(a.domains, trial)
               /\ ctl' = "call" => domains' = a.domains
               /\ \A xi \in DOMAIN map_graph : \A k \in 1..Len(map_graph[xi]) :
                    LET r == Map_revise(trial, xi, map_graph[xi][k])
                    IN  /\ Map_within(r, trial)
                        /\ \A c \in DOMAIN trial : c # xi => r[c] = trial[c]

\* Monotone shrinking in N-Queens: the script's ac3(), each revise and each
\* trial assignment leave every domain a subset of what it was, and
\* revise(xi, xj) changes no domain other than xi's.
NQ_shrinking_step ==
    n > 0
        => /\ ctl = "main" => /\ domains' = NQ_ac3(n, domains).domains
                              /\ Map_within(domains', domains)
           /\ (ctl = "loop" /\ Top.todo # <<>> /\ ctl' = "call")
                => /\ domains' = NQ_assign(domains, Top.column, Head(Top.todo))
                   /\ Map_within(domains', domains)
           /\ \A xi, xj \in 0..n - 1 :
                xi # xj =>
                    LET r == NQ_revise(domains, xi, xj)
                    IN  /\ Map_within(r, domains)
                        /\ \A c \in 0..n - 1 : c # xi => r[c] = domains[c]

\* Monotone shrinking in Sudoku: a trial (a value written to the board and
\* the ac3() that follows) leaves every cell's domain a subset of what it
\* was, so does ac3() on its own, and revise(i, j) changes no domain other
\* than i's.
Sud_shrinking_step ==
    (ctl = "loop" /\ DOMAIN board # {} /\ Top.todo # <<>>)
        => /\ Map_within(Sud_store(domains', heap'), Sud_store(domains, heap))
           /\ Map_within(Sud_store(domains, Sud_ac3(domains, heap).heap),
                         Sud_store(domains, heap))
           /\ \A i \in Cells : \A j \in Sud_get_neighbors(i) :
                LET r == Sud_store(domains, Sud_revise(domains, heap, i, j))
                IN  /\ Map_within(r, Sud_store(domains, heap))
                    /\ \A c \in Cells : c # i => r[c] = heap[domains[c]]

\* C24: in the map-colouring, N-Queens and Sudoku solvers neither
\* ac3()/revise nor a trial assignment ever adds a value to a domain: after
\* each of them every variable's domain is a subset of what it was
\* immediately before, and revise(xi, xj) changes no domain other than xi's.
C24_MonotoneShrinking ==
    [][/\ Map_shrinking_step
       /\ NQ_shrinking_step
       /\ Sud_shrinking_step]_vars

\* Sudoku: the first trial on the puzzle has been propagated and the call
\* below it is entered; no cell has gained a value and some cell has lost one
C24_Witness ==
    /\ DOMAIN board # {}
    /\ ctl = "call"
    /\ Len(stack) = 1
    /\ stack[1].entry.board = Sud_puzzle
    /\ board[Top.cell] # 0
    /\ Map_within(Sud_store(domains, heap), Top.entry.store)
    /\ \E c \in Cells : Sud_store(domains, heap)[c] # Top.entry.store[c]

\* map colouring: on the triangle with three colours the first trial is
\* propagated, and the two neighbours of the coloured country have lost
\* that colour
C24_WitnessMap ==
    /\ ctl = "call"
    /\ map_graph = Map_triangle
    /\ Len(colors) = 3
    /\ Len(stack) = 1
    /\ domains[1] = {1}
    /\ domains[2] = {2, 3}
    /\ domains[3] = {2, 3}
    /\ Map_within(domains, Top.entry)

\* N-Queens: the first trial on the 4-queens board has cut the domain of
\* its column to the row tried and left the other columns as they were
C24_WitnessQueens ==
    /\ n = 4
    /\ ctl = "call"
    /\ Len(stack) = 1
    /\ Cardinality(Top.entry[Top.column]) > 1
    /\ Cardinality(domains[Top.column]) = 1
    /\ Map_within(domains, Top.entry)
    /\ \A c \in 0..n - 1 : c # Top.column => domains[c] = Top.entry[c]

\* the variable a frame of the search has selected
Search_var(frame) == IF DOMAIN board # {} THEN frame.cell ELSE frame.column

\* the frames whose trial value is in force: all of them, but for the top
\* one while it is between two trials
Search_committed == IF ctl = "loop" THEN Len(stack) - 1 ELSE Len(stack)

\* the variables of the instance: the columns, or the cells that were empty
\* on the board the outermost call was entered with
Search_variable_count ==
    IF DOMAIN board # {}
    THEN Cardinality(Sud_empty_cells(stack[1].entry.board))
    ELSE n

\* C25: in NQueensSolver.backtrack and SudokuSolver.backtracking the trial
\* assignments in force are never more than the variables (n columns; the
\* cells that were empty at the start, at most 81), and every frame has
\* selected a variable different from those of the frames around it.
C25_BoundedRecursion ==
    (stack # <<>> /\ (n > 0 \/ DOMAIN board # {}))
        => /\ Search_committed <= Search_variable_count
           /\ Search_variable_count <= (IF DOMAIN board # {} THEN Side * Side ELSE n)
           /\ \A i, j \in 1..Len(stack) :
                i < j => Search_var(stack[i]) # Search_var(stack[j])

\* Sudoku: the puzzle is solved and True is being returned through as many
\* nested frames as the puzzle had empty cells, one frame per empty cell
C25_Witness ==
    /\ DOMAIN board # {}
    /\ ctl = "ret"
    /\ ret = TRUE
    /\ Len(stack) = Cardinality(Sud_empty_cells(Sud_puzzle))
    /\ stack[1].entry.board = Sud_puzzle
    /\ Search_committed = Search_variable_count
    /\ {stack[i].cell : i \in 1..Len(stack)} = Sud_empty_cells(Sud_puzzle)

\* four queens: a solution is being returned through four nested frames,
\* one per column
C25_WitnessQueens ==
    /\ n = 4
    /\ ctl = "ret"
    /\ Len(stack) = 4
    /\ Search_committed = Search_variable_count
    /\ {stack[i].column : i \in 1..4} = 0..3
    /\ ret # EmptyDict

\* the board the outermost call of backtracking() was entered with
Sud_initial_board ==
    IF stack # <<>> THEN stack[1].entry.board
    ELSE IF ctl = "call" THEN board
    ELSE ret_entry.board

\* C29: a cell that was a clue on the initial board keeps its value at every
\* point of the search; whenever a call of backtracking() returns False the
\* board is the board the call was entered with; and a call entered on a
\* board with no empty cell returns True and changes neither the board nor
\* the domains.
C29_SudokuBoardFrame ==
    DOMAIN board # {}
        => /\ \A pos \in Cells :
                Sud_initial_board[pos] # 0 => board[pos] = Sud_initial_board[pos]
           /\ (ctl = "ret" /\ ret = FALSE) => board = ret_entry.board
           /\ (ctl = "ret" /\ Sud_empty_cells(ret_entry.board) = {})
                => /\ ret = TRUE
                   /\ board = ret_entry.board
                   /\ Sud_store(domains, heap) = ret_entry.store

\* a call entered under a trial has found no value for its cell and returns
\* False, its board back to what it was, the clues of the start in place
C29_Witness ==
    /\ ctl = "ret"
    /\ ret = FALSE
    /\ stack # <<>>
    /\ board = ret_entry.board
    /\ Sud_empty_cells(board) # {}
    /\ \E pos \in Cells : Sud_initial_board[pos] # 0 /\ board[pos] = Sud_initial_board[pos]
    /\ \E pos \in Cells : Sud_initial_board[pos] = 0 /\ board[pos] # 0

\* C19: when ac3() is invoked after a trial value has been committed to a
\* cell, the domain of that cell is exactly the trial value.  The frame's
\* snapshot is the store ac3() was invoked on.
C19_TrialNarrowsDomain ==
    (ctl = "call" /\ stack # <<>> /\ board # <<>>)
        => Top.snapshot[Top.cell] = {board[Top.cell]}

\* C28: whenever a call of backtrack(assignment) returns None, the
\* assignment dict and every letter's domain are what they were when the
\* call was entered; and the digits of the partial assignment are pairwise
\* distinct at every point of the search.
C28_CryptRestoreOnFailure ==
    /\ (ctl = "ret" /\ ret = Nothing) => Cr_store(domains, assignment) = ret_entry
    /\ \A v, w \in DOMAIN assignment : v # w => assignment[v] # assignment[w]

\* a call that selected the eighth letter has tried every digit and returns
\* None with the seven pairs it was entered with
C28_Witness ==
    /\ ctl = "ret"
    /\ ret = Nothing
    /\ Len(variables) = 8
    /\ Cardinality(DOMAIN assignment) = 7
    /\ Cr_store(domains, assignment) = ret_entry

\* C17: on every instance with non-empty initial domains the solver's ac3
\* and search end by returning a solution or the no-solution value; they
\* never end in a fault.
C17_DefiniteResult ==
    (\A v \in DOMAIN domains : Cr_set_values(domains[v]) # {}) => ctl # "fault"

\* C8: for SEND + MORE = MONEY the backtracking solver built on the letters
\* S, E, N, D, M, O, R, Y and solve_cryptoarithmetic() each return a mapping
\* (not None) that gives the letters distinct digits, no leading zero, and
\* makes the sum true.
C8_SendMoreMoney ==
    (variables = Cr_script_variables /\ ctl \in {"done", "fault", "end"})
        => /\ ctl # "fault"
           /\ result # Nothing
           /\ Cr_valid_mapping(result[1])
           /\ ctl = "end" => (solution # Nothing /\ Cr_valid_mapping(solution[1]))

C8_Witness ==
    /\ variables = Cr_script_variables
    /\ ctl = "end"
    /\ result = Some(Cr_send_more_money)
    /\ solution = Some(Cr_send_more_money)

\* C30: on the letters S, E, N, D, M, O, R, Y solve() and
\* solve_cryptoarithmetic() return the same mapping, and in every state of
\* the search ac3() returns True and removes no value from any domain.
C30_CryptSolversAgree ==
    variables = Cr_script_variables
        => /\ \A v \in DOMAIN domains : Cr_set_values(domains[v]) = Digits
           /\ LET a == Cr_ac3(variables, domains)
              IN  a.ok /\ a.domains = domains
           /\ ctl = "end" => (result # Nothing /\ result = solution)

\* both scripts have ended with 9567 + 1085 = 10652 and the domains are
\* still the ten digits
C30_Witness ==
    /\ variables = Cr_script_variables
    /\ ctl = "end"
    /\ result = solution
    /\ solution = Some(Cr_send_more_money)
    /\ \A v \in DOMAIN domains : Cr_set_values(domains[v]) = Digits
    /\ stack = <<>>

(***************************************************************************)
(* ac3() called directly, twice in a row, on a solver whose domain store   *)
(* a client has set: self.domains is a public attribute of every solver.   *)
(* ctl is "ac3" before the first call, "again" before the second, "end"    *)
(* after it; result keeps what the first call returned, ret what the last  *)
(* one did, and ret_entry the store the last call was entered with.        *)
(***************************************************************************)
\* a solver with no search under way, about to call ac3()
Ac3_start ==
    /\ stack = <<>>
    /\ ctl = "ac3"
    /\ assignment = <<>>
    /\ ret = None
    /\ ret_entry = None
    /\ restored = NoStore
    /\ result = None
    /\ report = None
    /\ solution = None

\* MapColoring(graph, [1..MaxStoreVals]) with any store over its colours
MapAc3Init ==
    /\ \E k \in 1..MaxStoreVars : \E E \in SUBSET Map_pairs(k) :
            /\ map_graph = Map_graph_of(k, E)
            /\ domains \in [1..k -> SUBSET (1..MaxStoreVals)]
    /\ colors = [i \in 1..MaxStoreVals |-> i]
    /\ n = 0
    /\ variables = <<>>
    /\ board = <<>>
    /\ heap = <<>>
    /\ Ac3_start

\* NQueensSolver(n) with any store over its rows
NQAc3Init ==
    /\ n \in 1..MaxStoreN
    /\ domains \in [0..n - 1 -> SUBSET (0..n - 1)]
    /\ map_graph = <<>>
    /\ colors = <<>>
    /\ variables = <<>>
    /\ board = <<>>
    /\ heap = <<>>
    /\ Ac3_start

\* the position of ctl after a call of ac3()
Ac3_after == IF ctl = "ac3" THEN "again" ELSE "end"

\* what a call of ac3() leaves in ret, ret_entry, result and ctl
Ac3_returns(store, ok) ==
    /\ ret' = ok
    /\ ret_entry' = store
    /\ result' = IF ctl = "ac3" THEN ok ELSE result
    /\ ctl' = Ac3_after

\* MapColoring.ac3()
MapAc3Call ==
    /\ ctl \in {"ac3", "again"}
    /\ DOMAIN map_graph # {}
    /\ LET a == Map_ac3(map_graph, domains)
       IN  /\ domains' = a.domains
           /\ Ac3_returns(domains, a.ok)
    /\ UNCHANGED <<idle, stack, restored, report>>

\* NQueensSolver.ac3()
NQAc3Call ==
    /\ ctl \in {"ac3", "again"}
    /\ n > 0
    /\ LET a == NQ_ac3(n, domains)
       IN  /\ domains' = a.domains
           /\ Ac3_returns(domains, a.ok)
    /\ UNCHANGED <<idle, stack, restored, report>>

\* SudokuSolver(b) for the script's board or the solved one, with any set of
\* values put into the domains of its first MaxStoreCells cells
SudAc3Init ==
    /\ board \in {Sud_puzzle, Sud_output}
    /\ \E d \in [0..MaxStoreCells - 1 -> SUBSET (1..Side)] :
            heap = [pos \in Cells |-> IF pos < MaxStoreCells THEN d[pos]
                                      ELSE Sud_init_heap(board)[pos]]
    /\ domains = Sud_init_refs
    /\ map_graph = <<>>
    /\ colors = <<>>
    /\ n = 0
    /\ variables = <<>>
    /\ Ac3_start

\* the letter lists of the stores: the first letters of the script's list
Cr_prefix(k) == SubSeq(Cr_script_variables, 1, k)

\* the lists of distinct digits of a pool
Cr_lists(pool) ==
    UNION {{l \in [1..k -> pool] : \A i, j \in 1..k : i # j => l[i] # l[j]} :
                k \in 0..Cardinality(pool)}

\* the sets a client builds from them: solver.domains[v] = set(list)
Cr_client_sets(pool) == {Cr_set_new(l) : l \in Cr_lists(pool)}

\* CryptarithmeticSolver(vs) with any store over the digits below MaxStoreVals
CrAc3Init ==
    /\ \E k \in 1..MaxStoreVars :
            /\ variables = Cr_prefix(k)
            /\ domains \in [Elems(Cr_prefix(k)) -> Cr_client_sets(0..MaxStoreVals - 1)]
    /\ map_graph = <<>>
    /\ colors = <<>>
    /\ n = 0
    /\ board = <<>>
    /\ heap = <<>>
    /\ Ac3_start

\* SudokuSolver.ac3()
SudAc3Call ==
    /\ ctl \in {"ac3", "again"}
    /\ DOMAIN board # {}
    /\ LET a == Sud_ac3(domains, heap)
       IN  /\ heap' = a.heap
           /\ Ac3_returns(Sud_store(domains, heap), a.ok)
    /\ UNCHANGED <<params, assignment, board, domains, stack, restored, report>>

\* CryptarithmeticSolver.ac3()
CrAc3Call ==
    /\ ctl \in {"ac3", "again"}
    /\ Len(variables) > 0
    /\ LET a == Cr_ac3(variables, domains)
       IN  /\ domains' = a.domains
           /\ Ac3_returns(Cr_values(domains), a.ok)
    /\ UNCHANGED <<idle, stack, restored, report>>

Ac3Init == MapAc3Init \/ NQAc3Init \/ SudAc3Init \/ CrAc3Init

Ac3Next == MapAc3Call \/ NQAc3Call \/ SudAc3Call \/ CrAc3Call

SpecAc3 == Ac3Init /\ [][Ac3Next]_vars

(***************************************************************************)
(* Properties of ac3().                                                    *)
(***************************************************************************)
\* the values of every variable, whichever solver holds the store
Ac3_store ==
    IF DOMAIN board # {} THEN Sud_store(domains, heap)
    ELSE IF Len(variables) > 0 THEN Cr_values(domains)
    ELSE domains

\* C12: if ac3() returned True, an immediate second ac3() returns True and
\* removes no value from any domain (map colouring on a symmetric graph,
\* N-Queens, Sudoku, cryptarithmetic; any domain store).
C12_Ac3Idempotent ==
    (ctl = "end" /\ result = TRUE) => (ret = TRUE /\ Ac3_store = ret_entry)

\* on the script's board the first call has pruned every empty cell to the
\* value of the solved board, and the second call has returned
C12_Witness ==
    /\ ctl = "end"
    /\ board = Sud_puzzle
    /\ result = TRUE
    /\ ret = TRUE
    /\ Ac3_store = [pos \in Cells |-> {Sud_output[pos]}]
    /\ Ac3_store = ret_entry

\* the placements of k non-attacking queens, k <= MaxStoreN
NQ_placements ==
    [k \in 1..MaxStoreN |-> {f \in [0..k - 1 -> 0..k - 1] : NQ_placement(k, f)}]

\* the solved board with other values in its first MaxStoreCells cells
Sud_variants ==
    {[pos \in Cells |-> IF pos < MaxStoreCells THEN e[pos] ELSE Sud_output[pos]] :
        e \in [0..MaxStoreCells - 1 -> 1..Side]}

\* The complete assignments that take every value from the store pre and
\* satisfy every binary constraint: all of them for map colouring and
\* N-Queens, and for Sudoku those among the variants of the solved board.
Ac3_solutions(pre) ==
    IF DOMAIN board # {}
    THEN {b \in Sud_variants : Sud_solved(b) /\ \A pos \in Cells : b[pos] \in pre[pos]}
    ELSE IF n > 0
    THEN {f \in NQ_placements[n] : \A c \in 0..n - 1 : f[c] \in pre[c]}
    ELSE {f \in [DOMAIN map_graph -> 1..MaxStoreVals] :
            /\ \A c \in DOMAIN map_graph : f[c] \in pre[c]
            /\ \A c, d \in DOMAIN map_graph :
                    Map_adjacent(map_graph, c, d) => f[c] # f[d]}

\* C13: ac3() of the N-Queens, Sudoku and map-colouring solvers, from any
\* store, keeps every value of every complete assignment that is drawn from
\* the domains and satisfies all binary constraints, and returns True when
\* there is such an assignment.
C13_Ac3Sound ==
    (ctl = "again" /\ Len(variables) = 0)
        => \A a \in Ac3_solutions(ret_entry) :
                /\ ret = TRUE
                /\ \A v \in DOMAIN a : a[v] \in Ac3_store[v]

\* a 4-queens store that holds a placement and from which ac3() has pruned
C13_Witness ==
    /\ ctl = "again"
    /\ n = 4
    /\ ret = TRUE
    /\ Ac3_store # ret_entry
    /\ Ac3_solutions(ret_entry) # {}
    /\ \A a \in Ac3_solutions(ret_entry) : \A v \in DOMAIN a : a[v] \in Ac3_store[v]

\* C14: when CryptarithmeticSolver.ac3() returns True, for every ordered
\* pair of distinct letters (Xi, Xj) and every value v of Xi's domain there
\* is a value w # v in Xj's domain.
C14_CryptArcConsistent ==
    (ctl = "again" /\ Len(variables) > 0 /\ ret = TRUE)
        => \A xi, xj \in Elems(variables) :
                xi # xj => \A v \in Cr_set_values(domains[xi]) :
                                \E w \in Cr_set_values(domains[xj]) : w # v

(***************************************************************************)
(* order_domain_values(var, assignment) called directly on a solver whose  *)
(* domain store a client has set, with a partial assignment of distinct    *)
(* digits.  ret keeps the letter, result the list returned.                *)
(***************************************************************************)
\* the digits of these stores: those below MaxStoreVals - 1, and 8, whose
\* slot in a table of eight is the slot of 0
Cr_order_digits == (0..MaxStoreVals - 2) \cup {8}

\* the partial assignments of distinct digits to letters of vs
Cr_partial_assignments(vs) ==
    UNION {{a \in [A -> Cr_order_digits] :
                \A v, w \in A : v # w => a[v] # a[w]} : A \in SUBSET Elems(vs)}

CrOrderInit ==
    /\ \E k \in 1..MaxStoreVars :
            /\ variables = Cr_prefix(k)
            /\ domains \in [Elems(Cr_prefix(k)) -> Cr_client_sets(Cr_order_digits)]
            /\ assignment \in Cr_partial_assignments(Cr_prefix(k))
    /\ map_graph = <<>>
    /\ colors = <<>>
    /\ n = 0
    /\ board = <<>>
    /\ heap = <<>>
    /\ stack = <<>>
    /\ ctl = "order"
    /\ ret = None
    /\ ret_entry = None
    /\ restored = NoStore
    /\ result = None
    /\ report = None
    /\ solution = None

\* CryptarithmeticSolver.order_domain_values(var, assignment)
CrOrderCall ==
    /\ ctl = "order"
    /\ \E var \in Elems(variables) \ DOMAIN assignment :
            /\ ret' = var
            /\ result' = Cr_order_domain_values(variables, domains, assignment, var)
    /\ ctl' = "ordered"
    /\ UNCHANGED <<idle, domains, stack, ret_entry, restored, report>>

SpecCrOrder == CrOrderInit /\ [][CrOrderCall]_vars

\* the other unassigned letters whose domain contains the value
Cr_ruled_out(vs, dom, a, var, value) ==
    Cardinality({i \in DOMAIN vs :
                    /\ vs[i] # var
                    /\ vs[i] \notin DOMAIN a
                    /\ value \in Cr_set_values(dom[vs[i]])})

\* C21: order_domain_values(var, assignment) returns the values of var's
\* domain, each once, in non-decreasing order of the number of other
\* unassigned letters whose domain contains the value.
C21_CryptLcvOrder ==
    ctl = "ordered"
        => /\ Elems(result) = Cr_set_values(domains[ret])
           /\ Len(result) = Cr_set_used(domains[ret])
           /\ \A i, j \in DOMAIN result :
                i < j => Cr_ruled_out(variables, domains, assignment, ret, result[i])
                            <= Cr_ruled_out(variables, domains, assignment, ret, result[j])

(***************************************************************************)
(* The while loop of CryptarithmeticSolver.ac3(), one turn at a time, on a *)
(* solver whose domain store a client has set.  stack is the local queue;  *)
(* ret keeps the arc the last turn popped and ret_entry the store it found.*)
(***************************************************************************)
CrTurnInit ==
    /\ \E k \in 1..MaxStoreVars :
            /\ variables = Cr_prefix(k)
            /\ domains \in [Elems(Cr_prefix(k)) -> Cr_client_sets(0..MaxStoreVals - 1)]
    /\ map_graph = <<>>
    /\ colors = <<>>
    /\ n = 0
    /\ board = <<>>
    /\ heap = <<>>
    /\ assignment = <<>>
    /\ stack = Cr_create_constraints(variables)
    /\ ctl = "while"
    /\ ret = None
    /\ ret_entry = None
    /\ restored = NoStore
    /\ result = None
    /\ report = None
    /\ solution = None

\* (xi, xj) = queue.pop(0); if self.revise(xi, xj): ...
CrAc3Turn ==
    /\ ctl = "while"
    /\ stack # <<>>
    /\ LET s == Cr_ac3_step(variables, [domains |-> domains, queue |-> stack,
                                        ok |-> TRUE])
       IN  /\ domains' = s.domains
           /\ stack' = s.queue
           /\ ret' = Head(stack)
           /\ ret_entry' = Cr_values(domains)
           /\ IF s.ok
              THEN UNCHANGED <<ctl, result>>
              ELSE ctl' = "returned" /\ result' = FALSE
    /\ UNCHANGED <<idle, restored, report>>

\* the queue is empty: return True
CrAc3Exit ==
    /\ ctl = "while"
    /\ stack = <<>>
    /\ ctl' = "returned"
    /\ result' = TRUE
    /\ UNCHANGED <<idle, domains, stack, ret, ret_entry, restored, report>>

CrTurnNext == CrAc3Turn \/ CrAc3Exit

SpecCrAc3Turns == CrTurnInit /\ [][CrTurnNext]_vars

\* C23: a turn of ac3 that revises arc (Xi, Xj), removes a value and leaves
\* Xi's domain non-empty appends exactly the arcs (Xk, Xi), Xk a neighbour of
\* Xi other than Xj, each once; any other turn appends nothing.  In the
\* cryptarithmetic solver every other letter is a neighbour.
C23_Ac3RequeueRule ==
    [][(ctl = "while" /\ stack # <<>>)
        => LET xi == Head(stack)[1]
               xj == Head(stack)[2]
               appended == SubSeq(stack', Len(stack), Len(stack'))
               expected == {<<xk, xi>> : xk \in Elems(variables) \ {xi, xj}}
           IN  IF domains' # domains /\ Cr_set_used(domains'[xi]) > 0
               THEN /\ Elems(appended) = expected
                    /\ Len(appended) = Cardinality(expected)
               ELSE appended = <<>>]_vars

(***************************************************************************)
(* get_neighbors(p) and get_neighbors(q) called on a solver built on the   *)
(* script's board, for any two cells.  ret keeps the two cells, result the *)
(* two sets returned.                                                      *)
(***************************************************************************)
SudNeighborsInit ==
    /\ board = Sud_puzzle
    /\ heap = Sud_init_heap(Sud_puzzle)
    /\ domains = Sud_init_refs
    /\ map_graph = <<>>
    /\ colors = <<>>
    /\ n = 0
    /\ variables = <<>>
    /\ assignment = <<>>
    /\ stack = <<>>
    /\ ctl = "neighbors"
    /\ ret \in Cells \X Cells
    /\ ret_entry = None
    /\ restored = NoStore
    /\ result = None
    /\ report = None
    /\ solution = None

\* SudokuSolver.get_neighbors(pos), for both cells
SudNeighborsCall ==
    /\ ctl = "neighbors"
    /\ result' = <<Sud_get_neighbors(ret[1]), Sud_get_neighbors(ret[2])>>
    /\ ctl' = "returned"
    /\ UNCHANGED <<idle, domains, stack, ret, ret_entry, restored, report>>

SpecSudNeighbors == SudNeighborsInit /\ [][SudNeighborsCall]_vars

\* two different cells in the same row, the same column or the same subgrid
Sud_peers(p, q) ==
    /\ p # q
    /\ \/ Row(p) = Row(q)
       \/ Col(p) = Col(q)
       \/ (Row(p) \div Box = Row(q) \div Box /\ Col(p) \div Box = Col(q) \div Box)

\* C26: get_neighbors(p) is the set of the 20 cells other than p that share
\* p's row, column or subgrid; p is not in it, and q is in get_neighbors(p)
\* exactly when p is in get_neighbors(q).
C26_SudokuNeighbors ==
    ctl = "returned"
        => /\ result[1] = {c \in Cells : Sud_peers(ret[1], c)}
           /\ Cardinality(result[1]) = 20
           /\ ret[1] \notin result[1]
           /\ ret[2] \in result[1] <=> ret[1] \in result[2]

\* the centre cell and a cell of its subgrid that is in neither its row nor
\* its column
C26_Witness ==
    /\ ctl = "returned"
    /\ ret = <<Cell(4, 4), Cell(3, 5)>>
    /\ Cell(3, 5) \in result[1]
    /\ Cell(4, 4) \in result[2]
    /\ Cardinality(result[1]) = 20

=============================================================================
